---- MODULE Spec2Model ----
(***************************************************************************)
(* Model of the agent orchestration and job-execution engine:              *)
(*   - JobManager            (backend/app/services/job_manager.py)         *)
(*   - run_rfdiffusion       (backend/app/services/rfdiffusion_runner.py)  *)
(*   - run_agent_streaming   (backend/app/agent/claude_agent.py)           *)
(*   - send_message          (backend/app/routers/chat.py)                 *)
(*                                                                         *)
(* Spec       follows one submitted job through the Runner's task.  Every  *)
(*            action is the code between two suspension points (awaits) of *)
(*            the task, so every state is a point where another task of    *)
(*            the event loop can observe the registry.                     *)
(* SpecAgent  follows one conversation turn of the orchestrator.           *)
(***************************************************************************)
EXTENDS Integers, Sequences, FiniteSets, TLC

VARIABLES
    \* ---- JobManager / FileManager ----
    jobs,          \* JobManager._jobs : job_id -> record
    nfiles,        \* number of ids handed out by FileManager.register
    \* ---- the Runner's task (run_rfdiffusion) ----
    rjob,          \* job_id argument of the task (<<>> before submission)
    rpc,           \* the await the task is suspended at
    process,       \* the external process: "none" | "alive" | "exited" | "killed"
    lines,         \* _read_output's local list `lines`
    return_code,   \* the local return_code (None until process.wait() returns)
    artifacts,     \* design_*.pdb files found in the output directory
    \* ---- history of the run (not read by the code) ----
    observed,      \* <<status, progress>> at each suspension point where it changed
    termUpdates,   \* update_status calls with a terminal status issued by the task
    launches,      \* create_subprocess_exec calls that started a process
    timedOut,      \* the TimeoutError handler has run
    faults,        \* exceptions / cancellations the environment delivered
    \* ---- the orchestrator's turn (run_agent_streaming) ----
    messages,      \* the message log
    events,        \* events yielded by run_agent_streaming
    sse,           \* events yielded by send_message.event_generator
    apc,           \* position of the turn
    iteration,     \* loop variable of `for iteration in range(MAX_AGENT_ITERATIONS)`
    tool_use_blocks, \* tool calls collected in this iteration, not yet executed
    tool_results,  \* results collected in this iteration
    assistant_text_blocks, \* texts of the turn, joined into the persisted answer
    db_messages,   \* rows written by _save_message
    user_message,  \* the user's text (its routing class)
    is_new_conversation, \* send_message: the loaded history was empty
    \* ---- history of the turn (not read by the code) ----
    api_calls,     \* the provider calls made in the turn: model, thinking config
                   \* and the stop reason of the response ("" if the call raised)
    nextId,        \* tool-call ids the provider has handed out
    varied,        \* provider answers that were not the plain one-tool answer
                   \* (in SpecRounds: provider answers that had tool calls run)
    executed,      \* ids of the tool calls executed, in execution order
    exitPath,      \* how the loop ended
    \* ---- callers of the services ----
    call,          \* the call being made: the operation and its arguments
    ret,           \* what the call returned or raised
    reads,         \* values get_status / get_results returned to pollers
    attached,      \* job_id -> the ids last passed to set_results (history)
    \* ---- the rate limiter (RateLimiter) ----
    _hits,         \* key -> the list self._hits[key]
    now,           \* the value time.monotonic() returns
    admitted       \* key -> the times of every check that did not raise (history)

runnerVars == <<jobs, nfiles, rjob, rpc, process, lines, return_code, artifacts,
                observed, termUpdates, launches, timedOut, faults>>
agentVars  == <<messages, events, sse, apc, iteration, tool_use_blocks,
                tool_results, assistant_text_blocks, db_messages, user_message,
                is_new_conversation, api_calls, nextId, varied, executed, exitPath>>
callVars == <<call, ret, reads, attached>>
limiterVars == <<_hits, now, admitted>>
vars == <<runnerVars, agentVars, callVars, limiterVars>>

(***************************************************************************)
(* Bounds of the model                                                     *)
(***************************************************************************)
MaxLines == 2        \* output lines the external process emits in a run
MaxArtifacts == 2    \* design_*.pdb files the process leaves in the output dir
MaxVaried == 1       \* provider answers per turn other than the plain one-tool answer
MaxRounds == 2       \* provider answers with tool calls in a turn of SpecRounds
MaxCalls == 4        \* calls made on the JobManager in one behaviour of SpecApi
MaxLog == 14         \* messages in a log given to the context manager
MaxReads == 1        \* status / result queries made while a job is followed
MaxChecks == 6       \* requests the rate limiter is asked about
MaxTime == 5         \* seconds the monotonic clock advances
max_requests == 2    \* RateLimiter(max_requests, window_secs)
window_secs == 3

(***************************************************************************)
(* Program constants                                                       *)
(***************************************************************************)
MAX_AGENT_ITERATIONS == 15
JOB_TIMEOUT_SECS == 600
TailLines == 10

THINKING_BUDGET_TOKENS == 10000
MAX_TOOL_RESULT_CHARS == 2000
TOKEN_THRESHOLD == 80000
_CHARS_PER_TOKEN == 4
CondenseChars == 200     \* _condense_message cuts contents longer than this
SummarizeMinLen == 10    \* maybe_summarize_history leaves logs up to this length
KeepHead == 2            \* messages[:2]
keep_recent == 8         \* messages[-keep_recent:]
JobIds == {"job1"}
_VALID_STATES == {"pending", "queued", "running", "completed", "failed", "cancelled"}
TerminalStates == {"completed", "failed", "cancelled"}

\* Optional values: None is <<>>, a value v is <<v>>.
None == <<>>
Some(v) == <<v>>

(***************************************************************************)
(* Output lines of the external process.  A line either matches            *)
(* Timestep\s+(\d+)\s*/\s*(\d+) with the two numbers, or does not.         *)
(***************************************************************************)
Currents == {10, 25, 60}
Totals == {0, 50}
OtherLine == [match |-> FALSE, cur |-> 0, tot |-> 0]
TimestepLine(c, t) == [match |-> TRUE, cur |-> c, tot |-> t]
Lines == {OtherLine} \cup {TimestepLine(c, t) : c \in Currents, t \in Totals}
ExitCodes == {0, 1}

\* A progress computed as a percentage instead of a fraction.
Round3Percent(current, total) == (100 * current) \div total

\* round(current / total, 3), in thousandths (round-half-even on an exact tie).
Round3(current, total) ==
    LET q == (1000 * current) \div total
        r == (1000 * current) % total
    IN  IF 2 * r < total THEN q
        ELSE IF 2 * r > total THEN q + 1
        ELSE IF q % 2 = 0 THEN q ELSE q + 1

(***************************************************************************)
(* Messages stored in a job record                                         *)
(***************************************************************************)
Msg(kind, args, tail, exc) == [kind |-> kind, args |-> args, tail |-> tail, exc |-> exc]
MsgCreated == Msg("Job created", <<>>, <<>>, "")
MsgStarted == Msg("RFdiffusion started", <<>>, <<>>, "")
MsgTimestep(c, t) == Msg("Timestep", <<c, t>>, <<>>, "")
MsgExit(code, tail) == Msg("RFdiffusion exited with code", <<code>>, tail, "")
MsgCompleted(n) == Msg("Completed", <<n>>, <<>>, "")
MsgTimeout == Msg("Timed out after", <<JOB_TIMEOUT_SECS>>, <<>>, "")
MsgUnexpected(exc) == Msg("Unexpected error", <<>>, <<>>, exc)

\* full_output.splitlines()[-10:]
LastLines(ls) ==
    IF Len(ls) <= TailLines THEN ls ELSE SubSeq(ls, Len(ls) - TailLines + 1, Len(ls))

(***************************************************************************)
(* JobManager                                                              *)
(***************************************************************************)
Timestamp == "now"

NewJob(job_id) ==
    [job_id |-> job_id, status |-> "pending", progress |-> None,
     message |-> MsgCreated, output_pdb_ids |-> <<>>,
     started_at |-> Some(Timestamp), completed_at |-> None]

\* JobManager.create_job: the registry with a record for the fresh id.
create_job(js, job_id) ==
    [k \in DOMAIN js \cup {job_id} |-> IF k = job_id THEN NewJob(job_id) ELSE js[k]]

\* An update that never stamps completed_at.
UpdatedRecordUnstamped(job, status, progress, message) ==
    [job EXCEPT
        !.status = status,
        !.progress = IF progress # None THEN progress ELSE @,
        !.message = IF message # None THEN message[1] ELSE @]

\* The record update_status leaves for a job it accepts.
UpdatedRecord(job, status, progress, message) ==
    [job EXCEPT
        !.status = status,
        !.progress = IF progress # None THEN progress ELSE @,
        !.message = IF message # None THEN message[1] ELSE @,
        !.completed_at = IF status \in TerminalStates THEN Some(Timestamp) ELSE @]

\* An update that writes the record before it validates the status.
update_status_unchecked(js, job_id, status, progress, message) ==
    IF job_id \notin DOMAIN js THEN [err |-> "NotFound", jobs |-> js]
    ELSE [err |-> IF status \notin _VALID_STATES THEN "ValueError" ELSE "none",
          jobs |-> [js EXCEPT ![job_id] = UpdatedRecord(@, status, progress, message)]]

\* JobManager.update_status: [err, jobs].
update_status(js, job_id, status, progress, message) ==
    IF job_id \notin DOMAIN js THEN [err |-> "NotFound", jobs |-> js]
    ELSE IF status \notin _VALID_STATES THEN [err |-> "ValueError", jobs |-> js]
    ELSE [err |-> "none",
          jobs |-> [js EXCEPT ![job_id] = UpdatedRecord(@, status, progress, message)]]

\* JobManager.set_results
set_results(js, job_id, output_pdb_ids) ==
    IF job_id \notin DOMAIN js THEN [err |-> "NotFound", jobs |-> js]
    ELSE [err |-> "none",
          jobs |-> [js EXCEPT ![job_id].output_pdb_ids = output_pdb_ids]]

\* A status read that takes the progress but not the message that goes with it.
get_status_partial(js, job_id) ==
    IF job_id \notin DOMAIN js THEN [err |-> "NotFound"]
    ELSE [err |-> "none", job_id |-> js[job_id].job_id, status |-> js[job_id].status,
          progress |-> js[job_id].progress, message |-> MsgCreated,
          started_at |-> js[job_id].started_at, completed_at |-> js[job_id].completed_at]

\* JobManager.get_status
get_status(js, job_id) ==
    IF job_id \notin DOMAIN js THEN [err |-> "NotFound"]
    ELSE [err |-> "none", job_id |-> js[job_id].job_id, status |-> js[job_id].status,
          progress |-> js[job_id].progress, message |-> js[job_id].message,
          started_at |-> js[job_id].started_at, completed_at |-> js[job_id].completed_at]

\* A result read that does not look at the status.
get_results_any_status(js, job_id) ==
    IF job_id \notin DOMAIN js THEN [err |-> "NotFound"]
    ELSE [err |-> "none", job_id |-> js[job_id].job_id,
          output_pdb_ids |-> js[job_id].output_pdb_ids,
          num_designs |-> Len(js[job_id].output_pdb_ids)]

\* JobManager.get_results
get_results(js, job_id) ==
    IF job_id \notin DOMAIN js THEN [err |-> "NotFound"]
    ELSE IF js[job_id].status # "completed" THEN [err |-> "InvalidState"]
    ELSE [err |-> "none", job_id |-> js[job_id].job_id,
          output_pdb_ids |-> js[job_id].output_pdb_ids,
          num_designs |-> Len(js[job_id].output_pdb_ids)]

(***************************************************************************)
(* FileManager.register: hands out a fresh file id per artifact.           *)
(***************************************************************************)
FileId(k) == k

\* The ids registered for n artifacts, in the order of sorted(glob(...)).
RegisterAll(n) == [i \in 1..n |-> FileId(nfiles + i)]

(***************************************************************************)
(* run_rfdiffusion.  The task is suspended at                              *)
(*   start        created by create_task, not yet run                      *)
(*   db_running   await to_thread(_update_db_job_status, "running")  l.123 *)
(*   launch       await create_subprocess_exec                       l.126 *)
(*   read         await wait_for(_read_output(), JOB_TIMEOUT_SECS)   l.160 *)
(*   wait         await wait_for(process.wait(), 30)                 l.166 *)
(*   db_failed    await to_thread(..., "failed", error_msg)          l.178 *)
(*   db_completed await to_thread(..., "completed", ...)             l.209 *)
(*   db_timeout   await to_thread(..., "failed", timeout_msg)        l.222 *)
(*   db_err       await to_thread(..., "failed", error_msg)          l.237 *)
(* and has ended at                                                        *)
(*   done         returned                                                 *)
(*   raised       ended with an exception no handler caught                *)
(*   cancelled    ended with CancelledError (a BaseException, which        *)
(*                `except Exception` does not catch)                       *)
(***************************************************************************)
AwaitPoints == {"start", "db_running", "launch", "read", "wait", "db_failed",
                "db_completed", "db_timeout", "db_err"}
EndPoints == {"done", "raised", "cancelled"}

Snap(js) == <<js[rjob].status, js[rjob].progress>>

Observe(js) ==
    IF observed = <<>> \/ observed[Len(observed)] # Snap(js)
    THEN Append(observed, Snap(js)) ELSE observed

\* The bookkeeping every step of the task shares.
Step(pc, js, terminal, fault) ==
    /\ rpc' = pc
    /\ jobs' = js
    /\ observed' = Observe(js)
    /\ termUpdates' = termUpdates + terminal
    /\ faults' = IF fault = "" THEN faults ELSE Append(faults, fault)
    /\ UNCHANGED <<rjob, agentVars, callVars, limiterVars>>

\* What a caller holds after a call: the operation, its error if it raised,
\* and the fields of the value it returned.
NoCall == [op |-> "", job_id |-> "", n |-> 0]
NoRet == [op |-> "", err |-> "none"]

\* _handle_run_rfdiffusion l.225-240: the payload the submit tool returns.
SubmitPayload(j) == [op |-> "run_rfdiffusion", err |-> "none", status |-> "queued", job_id |-> j]

\* A submit handler that awaits the Runner's first steps before it returns.
SubmitAndWait(j) ==
    /\ rpc = "none"
    /\ j \notin DOMAIN jobs
    /\ jobs' = update_status(create_job(jobs, j), j, "running", Some(0), Some(MsgStarted)).jobs
    /\ rjob' = j
    /\ rpc' = "db_running"
    /\ call' = [op |-> "run_rfdiffusion", job_id |-> j, n |-> call.n + 1]
    /\ ret' = SubmitPayload(j)
    /\ UNCHANGED <<nfiles, process, lines, return_code, artifacts, observed,
                   termUpdates, launches, timedOut, faults, agentVars, reads, attached, limiterVars>>

\* start_rfdiffusion / _handle_run_rfdiffusion: create the job, spawn the task
\* with create_task (it has not run when the handler returns), return.
Submit(j) ==
    /\ rpc = "none"
    /\ j \notin DOMAIN jobs
    /\ jobs' = create_job(jobs, j)
    /\ rjob' = j
    /\ rpc' = "start"
    /\ call' = [op |-> "run_rfdiffusion", job_id |-> j, n |-> call.n + 1]
    /\ ret' = SubmitPayload(j)
    /\ UNCHANGED <<nfiles, process, lines, return_code, artifacts, observed,
                   termUpdates, launches, timedOut, faults, agentVars, reads, attached, limiterVars>>

\* l.93-123: build the command, mark the job running, suspend on the DB write.
TaskStart ==
    /\ rpc = "start"
    /\ LET r == update_status(jobs, rjob, "running", Some(0), Some(MsgStarted))
       IN  /\ r.err = "none"
           /\ Step("db_running", r.jobs, 0, "")
    /\ UNCHANGED <<nfiles, process, lines, return_code, artifacts, launches, timedOut>>

\* l.231-239: except Exception -> mark failed, suspend on the DB write.
HandleException(exc, fault) ==
    LET r == update_status(jobs, rjob, "failed", None, Some(MsgUnexpected(exc)))
    IN  /\ r.err = "none"
        /\ Step("db_err", r.jobs, 1, fault)

\* l.216-224: except asyncio.TimeoutError -> mark failed, suspend on the DB write.
HandleTimeout ==
    LET r == update_status(jobs, rjob, "failed", None, Some(MsgTimeout))
    IN  /\ r.err = "none"
        /\ Step("db_timeout", r.jobs, 1, "")
        /\ timedOut' = TRUE

\* l.123 returns: enter the try block.
DbRunningDone ==
    /\ rpc = "db_running"
    /\ Step("launch", jobs, 0, "")
    /\ UNCHANGED <<nfiles, process, lines, return_code, artifacts, launches, timedOut>>

\* l.123 raises (the executor cannot run the call): outside the try block.
DbRunningRaises ==
    /\ rpc = "db_running"
    /\ Step("raised", jobs, 0, "to_thread")
    /\ UNCHANGED <<nfiles, process, lines, return_code, artifacts, launches, timedOut>>

\* l.126-135: the process starts.
Launch ==
    /\ rpc = "launch"
    /\ process' = "alive"
    /\ launches' = launches + 1
    /\ Step("read", jobs, 0, "")
    /\ UNCHANGED <<nfiles, lines, return_code, artifacts, timedOut>>

\* l.126: create_subprocess_exec raises (OSError).
LaunchRaises ==
    /\ rpc = "launch"
    /\ HandleException("OSError", "launch")
    /\ UNCHANGED <<nfiles, process, lines, return_code, artifacts, launches, timedOut>>

\* l.139-156: one iteration of `async for raw_line in process.stdout`.
ProgressUpdate(js, line) ==
    IF line.match /\ line.tot > 0
    THEN update_status(js, rjob, "running", Some(Round3(line.cur, line.tot)),
                       Some(MsgTimestep(line.cur, line.tot)))
    ELSE [err |-> "none", jobs |-> js]

ReadLine(line) ==
    /\ rpc = "read"
    /\ Len(lines) < MaxLines
    /\ lines' = Append(lines, line)
    /\ LET r == ProgressUpdate(jobs, line)
       IN  /\ r.err = "none"
           /\ Step("read", r.jobs, 0, "")
    /\ UNCHANGED <<nfiles, process, return_code, artifacts, launches, timedOut>>

\* l.157-166: stdout is at EOF, _read_output returns, suspend on process.wait().
ReadEOF ==
    /\ rpc = "read"
    /\ Step("wait", jobs, 0, "")
    /\ UNCHANGED <<nfiles, process, lines, return_code, artifacts, launches, timedOut>>

\* l.139: the stream raises (ValueError: a line longer than the reader's limit).
ReadRaises ==
    /\ rpc = "read"
    /\ HandleException("ValueError", "read")
    /\ UNCHANGED <<nfiles, process, lines, return_code, artifacts, launches, timedOut>>

\* l.160: JOB_TIMEOUT_SECS elapse while reading.
ReadTimeout ==
    /\ rpc = "read"
    /\ HandleTimeout
    /\ UNCHANGED <<nfiles, process, lines, return_code, artifacts, launches>>

\* l.166-182: the process exits with a non-zero code.
ExitFailure(code) ==
    /\ rpc = "wait"
    /\ code # 0
    /\ process' = "exited"
    /\ return_code' = Some(code)
    /\ LET r == update_status(jobs, rjob, "failed", None,
                              Some(MsgExit(code, LastLines(lines))))
       IN  /\ r.err = "none"
           /\ Step("db_failed", r.jobs, 1, "")
    /\ UNCHANGED <<nfiles, lines, artifacts, launches, timedOut>>

\* l.184-197: set_results, then the completed update, with no await between.
Complete(js, output_pdb_ids) ==
    LET s == set_results(js, rjob, output_pdb_ids)
    IN  IF s.err # "none" THEN s
        ELSE update_status(s.jobs, rjob, "completed", Some(1000),
                           Some(MsgCompleted(Len(output_pdb_ids))))

\* l.166-209: the process exits with code 0 having left n artifacts.
ExitSuccess(n) ==
    /\ rpc = "wait"
    /\ process' = "exited"
    /\ return_code' = Some(0)
    /\ artifacts' = n
    /\ nfiles' = nfiles + n
    /\ LET r == Complete(jobs, RegisterAll(n))
       IN  /\ r.err = "none"
           /\ Step("db_completed", r.jobs, 1, "")
    /\ UNCHANGED <<lines, launches, timedOut>>

\* l.186: the process exits with code 0 and scanning the output directory raises.
RegisterRaises ==
    /\ rpc = "wait"
    /\ process' = "exited"
    /\ return_code' = Some(0)
    /\ HandleException("OSError", "register")
    /\ UNCHANGED <<nfiles, lines, artifacts, launches, timedOut>>

\* l.166: the process closed stdout but has not exited after the 30 s grace period.
WaitTimeout ==
    /\ rpc = "wait"
    /\ HandleTimeout
    /\ UNCHANGED <<nfiles, process, lines, return_code, artifacts, launches>>

\* l.178-182 / l.209-214 / l.237-239: the DB write returns, the task returns.
DbDone ==
    /\ rpc \in {"db_failed", "db_completed", "db_err"}
    /\ Step("done", jobs, 0, "")
    /\ UNCHANGED <<nfiles, process, lines, return_code, artifacts, launches, timedOut>>

\* A handler that never kills the process.
KillSkipped(p) == p

\* process.kill(): ProcessLookupError (the process is gone) is swallowed.
Kill(p) == IF p = "alive" THEN "killed" ELSE p

\* l.222-229: the DB write returns, then the process is killed.
DbTimeoutDone ==
    /\ rpc = "db_timeout"
    /\ process' = Kill(process)
    /\ Step("done", jobs, 0, "")
    /\ UNCHANGED <<nfiles, lines, return_code, artifacts, launches, timedOut>>

\* l.178 / l.209 raise inside the try block: except Exception handles it.
DbRaisesInTry ==
    /\ rpc \in {"db_failed", "db_completed"}
    /\ HandleException("RuntimeError", "to_thread")
    /\ UNCHANGED <<nfiles, process, lines, return_code, artifacts, launches, timedOut>>

\* l.222 / l.237 raise inside a handler: nothing catches it.
DbRaisesInHandler ==
    /\ rpc \in {"db_timeout", "db_err"}
    /\ Step("raised", jobs, 0, "to_thread")
    /\ UNCHANGED <<nfiles, process, lines, return_code, artifacts, launches, timedOut>>

\* The task is cancelled while suspended, after it began to run (the event
\* loop shuts down, or drops the task nobody holds a reference to):
\* CancelledError passes every handler.
Cancel ==
    /\ rpc \in AwaitPoints \ {"start"}
    /\ Step("cancelled", jobs, 0, "cancel")
    /\ UNCHANGED <<nfiles, process, lines, return_code, artifacts, launches, timedOut>>

(***************************************************************************)
(* Pollers of the registry: the check_job_status and get_results tools, the *)
(* status and results endpoints, the SSE job stream.  They run on the event *)
(* loop, so between two suspension points of the Runner's task.             *)
(***************************************************************************)
\* What a poller holds: the value returned and, for the history, the record
\* as it was when the call was made.
Read(op, value, rec) == [op |-> op, value |-> value, rec |-> rec]

\* _handle_check_job_status l.262 / get_job_status l.84 / stream l.191
CheckJobStatus ==
    /\ rpc # "none"
    /\ Len(reads) < MaxReads
    /\ reads' = Append(reads, Read("get_status", get_status(jobs, rjob), jobs[rjob]))
    /\ UNCHANGED <<runnerVars, agentVars, call, ret, attached, limiterVars>>

\* _handle_get_results l.316 / get_job_results l.92
GetResults ==
    /\ rpc # "none"
    /\ Len(reads) < MaxReads
    /\ reads' = Append(reads, Read("get_results", get_results(jobs, rjob), jobs[rjob]))
    /\ UNCHANGED <<runnerVars, agentVars, call, ret, attached, limiterVars>>

(***************************************************************************)
(* The JobManager under any caller (SpecApi): create_job, update_status,    *)
(* set_results, get_status and get_results called in any order with any    *)
(* arguments, on ids the registry holds and on ids it does not.             *)
(***************************************************************************)
ApiJobIds == {"job1", "job2"}
ApiStatuses == _VALID_STATES \cup {"done"}
ApiProgress == {None, Some(500)}
ApiMessages == {None, Some(MsgStarted)}
ApiIds == { << >>, <<FileId(1), FileId(2)>>, <<FileId(2), FileId(1)>> }

JobCall(op, job_id, status, progress, message, ids) ==
    [op |-> op, job_id |-> job_id, status |-> status, progress |-> progress,
     message |-> message, ids |-> ids, n |-> call.n + 1]
JobRet(op, err, value) == [op |-> op, err |-> err, value |-> value]

\* The variables no JobManager method touches.
apiFrame == <<nfiles, rjob, rpc, process, lines, return_code, artifacts, observed,
              termUpdates, launches, timedOut, faults, agentVars, reads, limiterVars>>

\* create_job(...) -> job_id: uuid4().hex is an id the registry does not hold.
ApiCreate(j) ==
    /\ call.n < MaxCalls
    /\ j \notin DOMAIN jobs
    /\ jobs' = create_job(jobs, j)
    /\ call' = JobCall("create_job", j, "", None, None, << >>)
    /\ ret' = JobRet("create_job", "none", [job_id |-> j])
    /\ attached' = [k \in DOMAIN jobs \cup {j} |-> IF k = j THEN << >> ELSE attached[k]]
    /\ UNCHANGED apiFrame

\* update_status(job_id, status, progress, message)
ApiUpdate(j, status, progress, message) ==
    /\ call.n < MaxCalls
    /\ LET r == update_status(jobs, j, status, progress, message)
       IN  /\ jobs' = r.jobs
           /\ ret' = JobRet("update_status", r.err, [job_id |-> j])
    /\ call' = JobCall("update_status", j, status, progress, message, << >>)
    /\ UNCHANGED <<attached, apiFrame>>

\* set_results(job_id, output_pdb_ids)
ApiSetResults(j, ids) ==
    /\ call.n < MaxCalls
    /\ LET r == set_results(jobs, j, ids)
       IN  /\ jobs' = r.jobs
           /\ ret' = JobRet("set_results", r.err, [job_id |-> j])
           /\ attached' = IF r.err = "none" THEN [attached EXCEPT ![j] = ids]
                          ELSE attached
    /\ call' = JobCall("set_results", j, "", None, None, ids)
    /\ UNCHANGED apiFrame

\* get_status(job_id)
ApiGetStatus(j) ==
    /\ call.n < MaxCalls
    /\ LET r == get_status(jobs, j)
       IN  ret' = JobRet("get_status", r.err, r)
    /\ call' = JobCall("get_status", j, "", None, None, << >>)
    /\ UNCHANGED <<jobs, attached, apiFrame>>

\* get_results(job_id)
ApiGetResults(j) ==
    /\ call.n < MaxCalls
    /\ LET r == get_results(jobs, j)
       IN  ret' = JobRet("get_results", r.err, r)
    /\ call' = JobCall("get_results", j, "", None, None, << >>)
    /\ UNCHANGED <<jobs, attached, apiFrame>>

(***************************************************************************)
(* Model router (model_router.py).  A user message is its routing          *)
(* features: whether a _SIMPLE_PATTERNS regex matches its start, its word  *)
(* count, and whether it contains one of _OPUS_KEYWORDS.                   *)
(***************************************************************************)
HAIKU == "claude-haiku-4-5-20251001"
SONNET == "claude-sonnet-4-6"
OPUS == "claude-opus-4-6"

UserMsg(simple, words, keyword) == [simple |-> simple, words |-> words, keyword |-> keyword]
Hello == UserMsg(TRUE, 1, FALSE)              \* "hello"
ExplainBinding == UserMsg(FALSE, 4, TRUE)     \* "explain the binding mode"
FetchAndShow == UserMsg(FALSE, 8, FALSE)      \* a longer request with no keyword
UserMessages == {Hello, ExplainBinding, FetchAndShow}

_has_opus_keyword(msg) == msg.keyword

\* A classification that looks for the keywords before the greeting patterns.
classify_keywords_first(msg) ==
    IF _has_opus_keyword(msg) THEN OPUS
    ELSE IF msg.simple THEN HAIKU
    ELSE IF msg.words <= 5 THEN HAIKU
    ELSE SONNET

_classify_complexity(msg) ==
    IF msg.simple THEN HAIKU
    ELSE IF msg.words <= 5 /\ ~_has_opus_keyword(msg) THEN HAIKU
    ELSE IF _has_opus_keyword(msg) THEN OPUS
    ELSE SONNET

\* A selection that classifies the message on every iteration.
select_model_by_message(msg, iter, has_tool_use) == _classify_complexity(msg)

select_model(msg, iter, has_tool_use) ==
    IF iter > 0 /\ has_tool_use THEN SONNET ELSE _classify_complexity(msg)

\* Thinking enabled for every model but the fast one.
thinking_unless_haiku(model) == model # HAIKU

should_enable_thinking(model) == model = OPUS

get_thinking_config(model) ==
    IF should_enable_thinking(model) THEN Some(THINKING_BUDGET_TOKENS) ELSE None

(***************************************************************************)
(* Content blocks, messages and events of the orchestrator                 *)
(***************************************************************************)
\* A text is the place it comes from: the model's n-th answer, the API error
\* text, the iteration-limit text, the user's message, a stored earlier turn.
Text(kind, n) == [kind |-> kind, n |-> n]
NoText == Text("", 0)
LimitMsg == Text("iteration limit", 0)

\* A tool result string: whether json.loads gives a dict, the keys the code
\* looks for in it, its length, the characters that cutting its long
\* sequence_preview fields and re-serialising removes, and whether it ends
\* with the truncation marker.
String(json, error, pdb_contents, len, trim) ==
    [json |-> json, error |-> error, pdb_contents |-> pdb_contents,
     len |-> len, trim |-> trim, marker |-> FALSE]
Payload(error, pdb_contents, len) == String(TRUE, error, pdb_contents, len, 0)
NoPayload == String(FALSE, FALSE, FALSE, 0, 0)

\* A block's signature is 0 for no signature (or the empty string) and n for
\* the signature the provider gave the thinking block of its n-th answer.
Block(type, id, name, text, content) ==
    [type |-> type, id |-> id, name |-> name, text |-> text, content |-> content,
     signature |-> 0]
Thinking(text, signature) ==
    [Block("thinking", 0, "", text, NoPayload) EXCEPT !.signature = signature]
ThinkingBlock(n) == Thinking(Text("thinking", n), n)
TextBlock(n) == Block("text", 0, "", Text("model", n), NoPayload)
ToolUseBlock(id, name) == Block("tool_use", id, name, NoText, NoPayload)
ToolResultBlock(id, content) == Block("tool_result", id, "", NoText, content)

\* {"role": r, "content": <str>} and {"role": r, "content": [<blocks>]}
StrMessage(role, text) == [role |-> role, str |-> TRUE, text |-> text, blocks |-> << >>]
ListMessage(role, blocks) == [role |-> role, str |-> FALSE, text |-> NoText, blocks |-> blocks]

Event(event, name, text, content) ==
    [event |-> event, name |-> name, text |-> text, content |-> content]
TextEvent(text) == Event("text", "", text, NoPayload)
ToolCallEvent(name) == Event("tool_call", name, NoText, NoPayload)
ToolResultEvent(name, content) == Event("tool_result", name, NoText, content)
VisualizationEvent(content) == Event("visualization", "", NoText, content)
DoneEvent == Event("done", "", NoText, NoPayload)

\* chat.py _format_sse: the SSE frame of an event.
_format_sse(e) == <<"event: ", e.event, "data: ", e>>
ConversationIdFrame == <<"event: ", "conversation_id", "data: ", "conversation_id">>
TitleFrame == <<"event: ", "title", "data: ", "title">>

RECURSIVE FormatAll(_)
FormatAll(es) == IF es = << >> THEN << >> ELSE <<_format_sse(Head(es))>> \o FormatAll(Tail(es))

(***************************************************************************)
(* What the provider may answer: the block types of the content, with the  *)
(* tool named by each tool_use block, and the stop reason.                 *)
(***************************************************************************)
TH == [type |-> "thinking", name |-> ""]
TX == [type |-> "text", name |-> ""]
TU(name) == [type |-> "tool_use", name |-> name]
PlainShape == <<TU("check_job_status")>>
Shapes == { << >>, <<TX>>, PlainShape, <<TU("visualize_structure")>>,
            <<TH, TX, TU("check_job_status"), TU("visualize_structure")>> }
StopReasons == {"end_turn", "tool_use", "max_tokens"}

\* What a handler may return for a tool (the string handle_tool_call returns).
PayloadOk == Payload(FALSE, FALSE, 300)
PayloadError == Payload(TRUE, FALSE, 60)
PayloadViz == Payload(FALSE, TRUE, 1500)
PayloadVizLong == Payload(FALSE, TRUE, 50000)
PlainOutcome(name) == IF name = "visualize_structure" THEN PayloadViz ELSE PayloadOk
Outcomes(name) ==
    IF name = "visualize_structure" THEN {PayloadViz, PayloadVizLong, PayloadError}
    ELSE {PayloadOk, PayloadError}

\* A trimming step that leaves the string as it is.
NoTrim(p) == p

\* A trimming that cuts the same number of characters on every pass.
TrimEveryPass(p) == IF p.json THEN [p EXCEPT !.len = @ - p.trim] ELSE p

\* context_manager._trim_sequence_previews: a string that decodes to a dict is
\* re-serialised with its long sequence_preview values cut to 20 chars + "...".
_trim_sequence_previews(p) ==
    IF p.json THEN [p EXCEPT !.len = @ - p.trim, !.trim = 0] ELSE p

\* result_str[:MAX_TOOL_RESULT_CHARS - 60] + "\n...[truncated to 2000 chars]"
\* The cut text no longer decodes (json is FALSE); error and pdb_contents keep
\* telling which keys the object it was cut from had.
Truncated(p) ==
    [p EXCEPT !.json = FALSE, !.marker = TRUE, !.trim = 0,
              !.len = MAX_TOOL_RESULT_CHARS - 60 + 29]

\* A compression with no pass-through of error results.
compress_without_passthrough(p) ==
    LET q == _trim_sequence_previews(p)
    IN  IF q.len > MAX_TOOL_RESULT_CHARS THEN Truncated(q) ELSE q

\* context_manager.compress_tool_result
compress_tool_result(p) ==
    IF p.json /\ p.error THEN p
    ELSE LET q == _trim_sequence_previews(p)
         IN  IF q.len > MAX_TOOL_RESULT_CHARS THEN Truncated(q) ELSE q

(***************************************************************************)
(* Context manager on the message log (context_manager.py).  A text stands  *)
(* for a string; Chars gives its length: a "long" text is longer than the   *)
(* whole token threshold, a "mid" one longer than the condensing cut, an    *)
(* "edge" one longer by one character, a "cut" one is content[:200] + "...".*)
(***************************************************************************)
Chars(text) ==
    CASE text.kind = "" -> 0
      [] text.kind = "long" -> _CHARS_PER_TOKEN * TOKEN_THRESHOLD + 4000
      [] text.kind = "mid" -> CondenseChars + 100
      [] text.kind = "edge" -> CondenseChars + 1
      [] text.kind = "cut" -> CondenseChars + 3
      [] OTHER -> 20

\* estimate_tokens l.76-87: the characters one block counts for.
BlockChars(b) ==
    CASE b.type = "text" -> Chars(b.text)
      [] b.type = "tool_result" -> b.content.len
      [] b.type = "tool_use" -> 40      \* len(json.dumps(block["input"]))
      [] b.type = "thinking" -> Chars(b.text)
      [] OTHER -> 0

RECURSIVE SumBlockChars(_)
SumBlockChars(blocks) ==
    IF blocks = << >> THEN 0 ELSE BlockChars(Head(blocks)) + SumBlockChars(Tail(blocks))

RECURSIVE TotalChars(_)
TotalChars(msgs) ==
    IF msgs = << >> THEN 0
    ELSE (IF Head(msgs).str THEN Chars(Head(msgs).text) ELSE SumBlockChars(Head(msgs).blocks))
         + TotalChars(Tail(msgs))

\* context_manager.estimate_tokens
estimate_tokens(msgs) == TotalChars(msgs) \div _CHARS_PER_TOKEN

\* content[:200] + "..."
CutText(text) == IF Chars(text) > CondenseChars THEN [text EXCEPT !.kind = "cut"] ELSE text

\* rc[:200] + "...[condensed]"
CondensedResult(p) ==
    IF p.len > CondenseChars
    THEN [p EXCEPT !.json = FALSE, !.len = CondenseChars + 14, !.trim = 0, !.marker = FALSE]
    ELSE p

\* _condense_message l.123-141: one block of a list content.
CondenseBlock(b) ==
    CASE b.type = "thinking" -> Thinking(NoText, b.signature)
      [] b.type = "text" -> [b EXCEPT !.text = CutText(@)]
      [] b.type = "tool_result" -> [b EXCEPT !.content = CondensedResult(@)]
      [] OTHER -> b

RECURSIVE CondenseBlocks(_)
CondenseBlocks(blocks) ==
    IF blocks = << >> THEN << >>
    ELSE <<CondenseBlock(Head(blocks))>> \o CondenseBlocks(Tail(blocks))

\* context_manager._condense_message
_condense_message(m) ==
    IF m.str THEN [m EXCEPT !.text = CutText(@)]
    ELSE [m EXCEPT !.blocks = CondenseBlocks(@)]

RECURSIVE CondenseAll(_)
CondenseAll(msgs) ==
    IF msgs = << >> THEN << >>
    ELSE <<_condense_message(Head(msgs))>> \o CondenseAll(Tail(msgs))

\* A summarisation that keeps only the recent messages as they are.
CondensedFromStart(msgs) ==
    LET n == Len(msgs)
    IN  CondenseAll(SubSeq(msgs, 1, n - keep_recent))
        \o SubSeq(msgs, n - keep_recent + 1, n)

\* l.61-66: messages[:2] + condensed messages[2:-keep_recent] + messages[-keep_recent:]
Condensed(msgs) ==
    LET n == Len(msgs)
        h == IF n < KeepHead THEN n ELSE KeepHead
        t == IF n < keep_recent THEN 1 ELSE n - keep_recent + 1
    IN  SubSeq(msgs, 1, h)
        \o CondenseAll(SubSeq(msgs, KeepHead + 1, n - keep_recent))
        \o SubSeq(msgs, t, n)

\* A summarisation with no check of the log's length.
summarize_any_length(msgs) ==
    IF estimate_tokens(msgs) <= TOKEN_THRESHOLD THEN msgs ELSE Condensed(msgs)

\* context_manager.maybe_summarize_history
maybe_summarize_history(msgs) ==
    IF estimate_tokens(msgs) <= TOKEN_THRESHOLD THEN msgs
    ELSE IF Len(msgs) <= SummarizeMinLen THEN msgs
    ELSE Condensed(msgs)

\* A pruning that builds the new block without the signature.
PruneBlockUnsigned(b) == IF b.type = "thinking" THEN Thinking(NoText, 0) ELSE b

\* prune_thinking_blocks l.27-35: a thinking block is replaced, in its place,
\* by a new one with an empty text and its signature; any other block is kept.
PruneBlock(b) == IF b.type = "thinking" THEN Thinking(NoText, b.signature) ELSE b

RECURSIVE PruneBlocks(_)
PruneBlocks(blocks) ==
    IF blocks = << >> THEN << >>
    ELSE <<PruneBlock(Head(blocks))>> \o PruneBlocks(Tail(blocks))

\* context_manager.prune_thinking_blocks
RECURSIVE prune_thinking_blocks(_)
prune_thinking_blocks(msgs) ==
    IF msgs = << >> THEN << >>
    ELSE LET msg == Head(msgs)
         IN  <<IF msg.role = "assistant" /\ ~msg.str
               THEN ListMessage(msg.role, PruneBlocks(msg.blocks)) ELSE msg>>
             \o prune_thinking_blocks(Tail(msgs))

\* run_agent_streaming l.127-128: the log sent to the provider.
api_messages(msgs) == maybe_summarize_history(prune_thinking_blocks(msgs))

(***************************************************************************)
(* Tool dispatcher (tool_handlers.handle_tool_call).  The input is the set  *)
(* of keys it holds; a handler reads its required keys with                *)
(* tool_input["key"], then returns a string or raises.                     *)
(***************************************************************************)
ToolNames == {"upload_pdb", "fetch_pdb", "run_rfdiffusion", "check_job_status",
              "get_results", "visualize_structure", "get_pdb_info"}

RequiredKeys(name) ==
    CASE name = "upload_pdb" -> {"filename"}
      [] name = "fetch_pdb" -> {"pdb_id"}
      [] name = "run_rfdiffusion" -> {"input_pdb_id", "contigs"}
      [] name \in {"check_job_status", "get_results"} -> {"job_id"}
      [] name = "visualize_structure" -> {"file_ids"}
      [] name = "get_pdb_info" -> {"file_id"}
      [] OTHER -> {}

\* The exceptions the handlers' code can raise: KeyError (a missing key),
\* ValueError (uuid.UUID of a malformed id), HTTPException (the services'
\* 404 / 400), OSError (reading or writing a file), RuntimeError (the
\* frontend's _backend_request).  All are subclasses of Exception.
HandlerExceptions == {"KeyError", "ValueError", "HTTPException", "OSError", "RuntimeError"}
ExceptionSubclasses == HandlerExceptions \cup {"TypeError", "AttributeError"}

Returned(payload) == [raised |-> FALSE, exc |-> "", payload |-> payload]
Raised(exc) == [raised |-> TRUE, exc |-> exc, payload |-> NoPayload]

\* What the body of a handler does once it has its keys.
HandlerBehaviours(name) ==
    {Returned(p) : p \in Outcomes(name)} \cup {Raised(e) : e \in HandlerExceptions}

\* handler(tool_input, ...): the subscript on a missing key raises KeyError.
Handler(name, tool_input, behaviour) ==
    IF ~(RequiredKeys(name) \subseteq tool_input) THEN Raised("KeyError")
    ELSE behaviour

\* json.dumps({"error": ...})
ErrorResult == Payload(TRUE, FALSE, 60)

\* A dispatcher that catches RuntimeError only.
handle_tool_call_runtime_only(tool_name, tool_input, behaviour) ==
    IF tool_name \notin ToolNames THEN Returned(ErrorResult)
    ELSE LET h == Handler(tool_name, tool_input, behaviour)
         IN  IF h.raised /\ h.exc = "RuntimeError" THEN Returned(ErrorResult) ELSE h

\* handle_tool_call: unknown name -> error result; `except Exception` turns
\* what the handler raises into an error result.
handle_tool_call(tool_name, tool_input, behaviour) ==
    IF tool_name \notin ToolNames THEN Returned(ErrorResult)
    ELSE LET h == Handler(tool_name, tool_input, behaviour)
         IN  IF h.raised /\ h.exc \in ExceptionSubclasses THEN Returned(ErrorResult)
             ELSE h

\* l.204-216: json.loads(result_str) is a dict with "pdb_contents".
HasVisualization(p) == p.json /\ p.pdb_contents

(***************************************************************************)
(* run_agent_streaming                                                     *)
(***************************************************************************)
RECURSIVE NumToolUse(_)
NumToolUse(shape) ==
    IF shape = << >> THEN 0
    ELSE (IF Head(shape).type = "tool_use" THEN 1 ELSE 0) + NumToolUse(Tail(shape))

\* l.156-178: the assistant content built from the response, block by block.
\* Tool-use ids are the provider's: fresh ones, in block order.
RECURSIVE AssistantContent(_, _, _)
AssistantContent(shape, n, id) ==
    IF shape = << >> THEN << >>
    ELSE LET b == Head(shape)
         IN  IF b.type = "thinking"
             THEN <<ThinkingBlock(n)>> \o AssistantContent(Tail(shape), n, id)
             ELSE IF b.type = "text"
             THEN <<TextBlock(n)>> \o AssistantContent(Tail(shape), n, id)
             ELSE <<ToolUseBlock(id + 1, b.name)>> \o AssistantContent(Tail(shape), n, id + 1)

\* l.163-178: the events yielded while classifying the blocks, in block order.
RECURSIVE BlockEvents(_)
BlockEvents(content) ==
    IF content = << >> THEN << >>
    ELSE LET b == Head(content)
         IN  (IF b.type = "text" THEN <<TextEvent(b.text)>>
              ELSE IF b.type = "tool_use" THEN <<ToolCallEvent(b.name)>>
              ELSE << >>) \o BlockEvents(Tail(content))

RECURSIVE SelectType(_, _)
SelectType(content, type) ==
    IF content = << >> THEN << >>
    ELSE (IF Head(content).type = type THEN <<Head(content)>> ELSE << >>)
         \o SelectType(Tail(content), type)

RECURSIVE Texts(_)
Texts(blocks) == IF blocks = << >> THEN << >> ELSE <<Head(blocks).text>> \o Texts(Tail(blocks))

\* A flag computed from the last message of the log instead of the one before.
HasToolUseInLast(msgs, iter) ==
    /\ iter > 0
    /\ Len(msgs) >= 2
    /\ ~msgs[Len(msgs)].str
    /\ SelectType(msgs[Len(msgs)].blocks, "tool_use") # << >>

\* l.112-120: did the assistant message before the last one carry tool calls.
HasToolUse(msgs, iter) ==
    /\ iter > 0
    /\ Len(msgs) >= 2
    /\ ~msgs[Len(msgs) - 1].str
    /\ SelectType(msgs[Len(msgs) - 1].blocks, "tool_use") # << >>

\* _save_message: one row.
Row(role, text, model) == [role |-> role, text |-> text, model |-> model]

Yield(es) ==
    /\ events' = events \o es
    /\ sse' = sse \o FormatAll(es)

\* send_message l.58-91 and run_agent_streaming l.99-108: the stream opens with
\* the conversation id, the user's message is appended and persisted.
StartTurn ==
    /\ apc = "idle"
    /\ is_new_conversation' = (messages = << >>)
    /\ sse' = <<ConversationIdFrame>>
    /\ messages' = Append(messages, StrMessage("user", Text("user", 0)))
    /\ db_messages' = Append(db_messages, Row("user", <<Text("user", 0)>>, ""))
    /\ apc' = "call"
    /\ UNCHANGED <<events, iteration, tool_use_blocks, tool_results,
                   assistant_text_blocks, user_message, api_calls, nextId, varied,
                   executed, exitPath, runnerVars, callVars, limiterVars>>

\* l.121-139: the model and the thinking config of this iteration's call.
ApiCall ==
    LET model == select_model(user_message, iteration, HasToolUse(messages, iteration))
    IN  [model |-> model, thinking |-> get_thinking_config(model)]

\* l.142-182: the call with response.stop_reason, or "" when it raised.
Answered(stop) ==
    [model |-> ApiCall.model, thinking |-> ApiCall.thinking, stop_reason |-> stop]

\* A loop that executes the collected tool calls whatever the stop reason.
AfterResponseLenient(stop, blocks) ==
    IF stop = "end_turn" THEN "end_turn"
    ELSE IF blocks # << >> THEN "tools"
    ELSE "anomaly"

\* l.182-226: where the loop goes after the assistant message was appended.
AfterResponse(stop, blocks) ==
    IF stop = "end_turn" THEN "end_turn"
    ELSE IF stop = "tool_use" /\ blocks # << >> THEN "tools"
    ELSE "anomaly"

\* The answers of the provider in a turn are bounded in one of two units:
\* "varied" counts the answers and tool results other than the plain ones, and
\* leaves the number of iterations to the loop; "round" counts the iterations
\* that run tool calls, and leaves the answers and the results free.
Limit(unit) == IF unit = "round" THEN MaxRounds ELSE MaxVaried
AnswerCost(unit, after, shape) ==
    IF after # "tools" THEN 0
    ELSE IF unit = "round" \/ shape # PlainShape THEN 1 ELSE 0
OutcomeCost(unit, outcome, name) ==
    IF unit = "round" \/ outcome = PlainOutcome(name) THEN 0 ELSE 1

\* l.110-185: one provider call that returns, up to the first tool execution.
ProviderAnswer(shape, stop, unit) ==
    /\ apc = "call"
    /\ iteration < MAX_AGENT_ITERATIONS
    /\ stop = "end_turn" => NumToolUse(shape) = 0
    /\ LET n == Len(api_calls) + 1
           content == AssistantContent(shape, n, nextId)
           blocks == SelectType(content, "tool_use")
           after == AfterResponse(stop, blocks)
           cost == AnswerCost(unit, after, shape)
       IN  /\ varied + cost <= Limit(unit)
           /\ varied' = varied + cost
           /\ api_calls' = Append(api_calls, Answered(stop))
           /\ nextId' = nextId + Len(blocks)
           /\ assistant_text_blocks' =
                  assistant_text_blocks \o Texts(SelectType(content, "text"))
           /\ Yield(BlockEvents(content))
           /\ messages' = Append(messages, ListMessage("assistant", content))
           /\ tool_use_blocks' = IF after = "tools" THEN blocks ELSE << >>
           /\ apc' = IF after = "tools" THEN "tools" ELSE "final"
           /\ exitPath' = IF after = "tools" THEN exitPath ELSE after
    /\ UNCHANGED <<iteration, tool_results, db_messages, user_message,
                   is_new_conversation, executed, runnerVars, callVars, limiterVars>>

ProviderCall(shape, stop) == ProviderAnswer(shape, stop, "varied")
RoundCall(shape, stop) == ProviderAnswer(shape, stop, "round")

\* An error handler that ends with `continue` instead of `break`.
ProviderErrorContinues ==
    /\ apc = "call"
    /\ iteration < MAX_AGENT_ITERATIONS
    /\ LET error_text == Text("api error", Len(api_calls) + 1)
       IN  /\ api_calls' = Append(api_calls, Answered(""))
           /\ Yield(<<TextEvent(error_text)>>)
           /\ messages' = Append(messages, StrMessage("assistant", error_text))
           /\ db_messages' = Append(db_messages,
                                    Row("assistant", <<error_text>>, ApiCall.model))
    /\ iteration' = iteration + 1
    /\ exitPath' = "api_error"
    /\ UNCHANGED <<apc, tool_use_blocks, tool_results, assistant_text_blocks,
                   user_message, is_new_conversation, nextId, varied, executed,
                   runnerVars, callVars, limiterVars>>

\* l.141-150: the provider call raises anthropic.APIError.
ProviderError ==
    /\ apc = "call"
    /\ iteration < MAX_AGENT_ITERATIONS
    /\ LET error_text == Text("api error", Len(api_calls) + 1)
       IN  /\ api_calls' = Append(api_calls, Answered(""))
           /\ Yield(<<TextEvent(error_text)>>)
           /\ messages' = Append(messages, StrMessage("assistant", error_text))
           /\ db_messages' = Append(db_messages,
                                    Row("assistant", <<error_text>>, ApiCall.model))
    /\ apc' = "final"
    /\ exitPath' = "api_error"
    /\ UNCHANGED <<iteration, tool_use_blocks, tool_results, assistant_text_blocks,
                   user_message, is_new_conversation, nextId, varied, executed,
                   runnerVars, callVars, limiterVars>>

\* A loop that reports a tool's result only when it is not an error.
ToolEventsUnlessError(name, result_str) ==
    IF result_str.error THEN << >>
    ELSE <<ToolResultEvent(name, result_str)>>

\* l.198-218: the events yielded for one executed tool call: its result, then
\* a visualization if the (compressed) result decodes with pdb_contents.
ToolEvents(name, result_str) ==
    <<ToolResultEvent(name, result_str)>>
    \o (IF HasVisualization(result_str)
        THEN <<VisualizationEvent(result_str)>> ELSE << >>)

\* l.188-218: what one tool call yields, given what its handler returned.
ExecEvents(name, outcome) == ToolEvents(name, compress_tool_result(outcome))

\* A loop that collects the results and appends no bundle.
BundleAppendNone(msgs, results, last) == msgs

\* A bundle appended inside the loop over the tool calls: one message per result.
BundleAppendEach(msgs, results, last) ==
    Append(msgs, ListMessage("user", <<results[Len(results)]>>))

\* l.224: after the loop over the tool calls, one user message with all results.
BundleAppend(msgs, results, last) ==
    IF last THEN Append(msgs, ListMessage("user", results)) ELSE msgs

\* l.188-224: execute the next collected tool call; after the last one append
\* the result bundle and go to the next iteration.
ToolCall(outcome, unit) ==
    /\ apc = "tools"
    /\ tool_use_blocks # << >>
    /\ LET tool_block == Head(tool_use_blocks)
           cost == OutcomeCost(unit, outcome, tool_block.name)
           result_str == compress_tool_result(outcome)
           results == Append(tool_results, ToolResultBlock(tool_block.id, result_str))
           last == Tail(tool_use_blocks) = << >>
       IN  /\ outcome \in Outcomes(tool_block.name)
           /\ varied + cost <= Limit(unit)
           /\ varied' = varied + cost
           /\ executed' = Append(executed, tool_block.id)
           /\ Yield(ToolEvents(tool_block.name, result_str))
           /\ tool_use_blocks' = Tail(tool_use_blocks)
           /\ tool_results' = IF last THEN << >> ELSE results
           /\ messages' = BundleAppend(messages, results, last)
           /\ iteration' = IF last THEN iteration + 1 ELSE iteration
           /\ apc' = IF last THEN "call" ELSE "tools"
    /\ UNCHANGED <<assistant_text_blocks, db_messages, user_message,
                   is_new_conversation, api_calls, nextId, exitPath, runnerVars,
                   callVars, limiterVars>>

ExecTool(outcome) == ToolCall(outcome, "varied")
RoundExec(outcome) == ToolCall(outcome, "round")

\* A loop that runs out of iterations and says nothing.
IterationLimitSilent ==
    /\ apc = "call"
    /\ iteration = MAX_AGENT_ITERATIONS
    /\ apc' = "final"
    /\ exitPath' = "limit"
    /\ UNCHANGED <<messages, events, sse, iteration, tool_use_blocks, tool_results,
                   assistant_text_blocks, db_messages, user_message,
                   is_new_conversation, api_calls, nextId, varied, executed,
                   runnerVars, callVars, limiterVars>>

\* l.227-234: the for loop ran out of iterations.
IterationLimit ==
    /\ apc = "call"
    /\ iteration = MAX_AGENT_ITERATIONS
    /\ assistant_text_blocks' = Append(assistant_text_blocks, LimitMsg)
    /\ messages' = Append(messages, StrMessage("assistant", LimitMsg))
    /\ Yield(<<TextEvent(LimitMsg)>>)
    /\ apc' = "final"
    /\ exitPath' = "limit"
    /\ UNCHANGED <<iteration, tool_use_blocks, tool_results, db_messages,
                   user_message, is_new_conversation, api_calls, nextId, varied,
                   executed, runnerVars, callVars, limiterVars>>

\* l.236-251: persist the joined text if there is any, yield done.
Finish ==
    /\ apc = "final"
    /\ db_messages' =
           IF assistant_text_blocks # << >>
           THEN Append(db_messages,
                       Row("assistant", assistant_text_blocks,
                           api_calls[Len(api_calls)].model))
           ELSE db_messages
    /\ Yield(<<DoneEvent>>)
    /\ apc' = "done"
    /\ UNCHANGED <<messages, iteration, tool_use_blocks, tool_results,
                   assistant_text_blocks, user_message, is_new_conversation,
                   api_calls, nextId, varied, executed, exitPath, runnerVars, callVars, limiterVars>>

\* chat.py l.93-100: a new conversation gets a title, sent after the agent's events.
TitleGenerated ==
    /\ apc = "done"
    /\ is_new_conversation
    /\ sse' = Append(sse, TitleFrame)
    /\ apc' = "closed"
    /\ UNCHANGED <<messages, events, iteration, tool_use_blocks, tool_results,
                   assistant_text_blocks, db_messages, user_message,
                   is_new_conversation, api_calls, nextId, varied, executed,
                   exitPath, runnerVars, callVars, limiterVars>>

\* chat.py l.93-100: no title (not a new conversation, no key, or Haiku failed).
NoTitle ==
    /\ apc = "done"
    /\ apc' = "closed"
    /\ UNCHANGED <<messages, events, sse, iteration, tool_use_blocks, tool_results,
                   assistant_text_blocks, db_messages, user_message,
                   is_new_conversation, api_calls, nextId, varied, executed,
                   exitPath, runnerVars, callVars, limiterVars>>

(***************************************************************************)
(* Rate limiter (rate_limit.RateLimiter): one limiter asked about requests  *)
(* of two keys while the monotonic clock advances in whole seconds.        *)
(***************************************************************************)
Keys == {"ip-a", "ip-b"}

\* l.30: [t for t in hits if t > cutoff]
Pruned(hits, cutoff) == SelectSeq(hits, LAMBDA t : t > cutoff)

RECURSIVE Concat(_, _)
Concat(hits, keys) ==
    IF keys = {} THEN << >>
    ELSE LET k == CHOOSE x \in keys : TRUE
         IN  hits[k] \o Concat(hits, keys \ {k})

\* A limiter that keeps one list of hits for all keys.
check_any_key(hits, key, t) ==
    LET kept == Pruned(hits[key], t - window_secs)
        all == Pruned(Concat(hits, Keys), t - window_secs)
    IN  IF Len(all) >= max_requests
        THEN [hits |-> [hits EXCEPT ![key] = kept], err |-> "429"]
        ELSE [hits |-> [hits EXCEPT ![key] = Append(kept, t)], err |-> "none"]

\* RateLimiter.check at time t: the lists after the call, and 429 if it raised.
check(hits, key, t) ==
    LET kept == Pruned(hits[key], t - window_secs)
    IN  IF Len(kept) >= max_requests
        THEN [hits |-> [hits EXCEPT ![key] = kept], err |-> "429"]
        ELSE [hits |-> [hits EXCEPT ![key] = Append(kept, t)], err |-> "none"]

\* A request handler calls check(key).
Check(key) ==
    /\ call.n < MaxChecks
    /\ LET r == check(_hits, key, now)
       IN  /\ _hits' = r.hits
           /\ call' = [op |-> "check", key |-> key, n |-> call.n + 1]
           /\ ret' = [op |-> "check", err |-> r.err]
           /\ admitted' = IF r.err = "none"
                          THEN [admitted EXCEPT ![key] = Append(@, now)]
                          ELSE admitted
    /\ UNCHANGED <<runnerVars, agentVars, reads, attached, now>>

\* time.monotonic() has advanced by a second.
Tick ==
    /\ now < MaxTime
    /\ now' = now + 1
    /\ UNCHANGED <<runnerVars, agentVars, callVars, _hits, admitted>>

\* __init__ l.18-21: no hits (a defaultdict: every key reads as the empty list).
InitLimiter ==
    /\ _hits = [k \in Keys |-> << >>]
    /\ now = 0
    /\ admitted = [k \in Keys |-> << >>]

(***************************************************************************)
(* Initial states                                                          *)
(***************************************************************************)
InitRunner ==
    /\ jobs = << >>
    /\ nfiles = 0
    /\ rjob = ""
    /\ rpc = "none"
    /\ process = "none"
    /\ lines = << >>
    /\ return_code = None
    /\ artifacts = 0
    /\ observed = << >>
    /\ termUpdates = 0
    /\ launches = 0
    /\ timedOut = FALSE
    /\ faults = << >>

InitAgentIdle ==
    /\ messages = << >>
    /\ events = << >>
    /\ sse = << >>
    /\ apc = "idle"
    /\ iteration = 0
    /\ tool_use_blocks = << >>
    /\ tool_results = << >>
    /\ assistant_text_blocks = << >>
    /\ db_messages = << >>
    /\ user_message = Hello
    /\ is_new_conversation = TRUE
    /\ api_calls = << >>
    /\ nextId = 0
    /\ varied = 0
    /\ executed = << >>
    /\ exitPath = ""

InitCalls ==
    /\ call = NoCall
    /\ ret = NoRet
    /\ reads = << >>
    /\ attached = << >>

Init == InitRunner /\ InitAgentIdle /\ InitCalls /\ InitLimiter

Next ==
    \/ \E j \in JobIds : Submit(j)
    \/ TaskStart
    \/ DbRunningDone
    \/ DbRunningRaises
    \/ Launch
    \/ LaunchRaises
    \/ \E line \in Lines : ReadLine(line)
    \/ ReadEOF
    \/ ReadRaises
    \/ ReadTimeout
    \/ \E code \in ExitCodes : ExitFailure(code)
    \/ \E n \in 0..MaxArtifacts : ExitSuccess(n)
    \/ RegisterRaises
    \/ WaitTimeout
    \/ DbDone
    \/ DbTimeoutDone
    \/ DbRaisesInTry
    \/ DbRaisesInHandler
    \/ Cancel
    \/ CheckJobStatus
    \/ GetResults

Spec == Init /\ [][Next]_vars

(***************************************************************************)
(* The pure functions (SpecPure): one call on an input drawn from the sets  *)
(* below, and its result.                                                   *)
(***************************************************************************)
\* Tool inputs: all required keys, none, and one of two.
ToolInputs(name) == {RequiredKeys(name), {}, RequiredKeys(name) \ {"input_pdb_id"}}

DispatchCalls ==
    {[op |-> "handle_tool_call", n |-> 0, name |-> name, input |-> input,
      behaviour |-> b] :
        name \in {"check_job_status", "run_rfdiffusion", "visualize_structure",
                  "delete_file"},
        input \in ToolInputs("run_rfdiffusion") \cup ToolInputs("check_job_status")
                  \cup ToolInputs("visualize_structure"),
        b \in HandlerBehaviours("visualize_structure")}

\* Tool result strings around the cap, with and without an error key, with
\* sequence previews that trimming shortens by a little or by a lot.
Lengths == {300, MAX_TOOL_RESULT_CHARS - 10, MAX_TOOL_RESULT_CHARS,
            MAX_TOOL_RESULT_CHARS + 1, MAX_TOOL_RESULT_CHARS + 30, 5000}
Trims == {0, 40, 3100}
Strings ==
    {String(json, error, pdb, len, trim) :
        json \in BOOLEAN, error \in BOOLEAN, pdb \in BOOLEAN, len \in Lengths,
        trim \in Trims}

WellFormed(s) ==
    /\ s.trim < s.len
    /\ ~s.json => (~s.error /\ ~s.pdb_contents /\ s.trim = 0)

CompressCalls ==
    {[op |-> "compress_tool_result", n |-> 0, arg |-> s] :
        s \in {x \in Strings : WellFormed(x)}}

\* The i-th message of a sample log: user and assistant in turn, as a string,
\* a list with thinking, text and tool_use, a tool_result bundle, a list with
\* text; its texts are of the given kind.
SampleMessage(i, kind) ==
    CASE i % 4 = 1 -> StrMessage("user", Text(kind, i))
      [] i % 4 = 2 -> ListMessage("assistant",
                          <<Thinking(Text(kind, i), i),
                            Block("text", 0, "", Text(kind, i), NoPayload),
                            ToolUseBlock(i, "check_job_status")>>)
      [] i % 4 = 3 -> ListMessage("user",
                          <<ToolResultBlock(i - 1,
                               IF kind = "short" THEN PayloadOk
                               ELSE IF kind = "edge"
                                    THEN Payload(FALSE, FALSE, CondenseChars + 5)
                               ELSE PayloadViz)>>)
      [] OTHER -> ListMessage("assistant",
                          <<Block("text", 0, "", Text(kind, i), NoPayload)>>)

SampleLog(n, big, base) ==
    [i \in 1..n |-> SampleMessage(i, IF i \in big THEN "long" ELSE base)]

Logs ==
    {SampleLog(n, big, base) :
        n \in 0..MaxLog,
        big \in {s \in SUBSET (1..MaxLog) : Cardinality(s) <= 2},
        base \in {"short", "mid", "edge"}}

SummarizeCalls == {[op |-> "maybe_summarize_history", n |-> 0, log |-> l] : l \in Logs}
\* Messages by their routing features: empty, one word, five and six words,
\* a long one; with and without a greeting at the start, with and without a
\* keyword.  An empty message has neither.
RoutedMessages ==
    {m \in {UserMsg(s, w, k) : s \in BOOLEAN, w \in {0, 1, 5, 6, 9}, k \in BOOLEAN} :
        m.words = 0 => (~m.simple /\ ~m.keyword)}

SelectCalls ==
    {[op |-> "select_model", n |-> 0, msg |-> m, iteration |-> i, has_tool_use |-> h] :
        m \in RoutedMessages, i \in {0, 1, MAX_AGENT_ITERATIONS - 1}, h \in BOOLEAN}

\* One executed tool call and what its handler returned.
ExecCalls ==
    {[op |-> "exec_tool", n |-> 0, name |-> name, outcome |-> o] :
        name \in {"check_job_status", "visualize_structure"},
        o \in {PayloadOk, PayloadError, PayloadViz, PayloadVizLong}}

\* chat.py _load_conversation_messages: the stored turns, text only.
StoredTurn == <<StrMessage("user", Text("stored", 1)), StrMessage("assistant", Text("stored", 2))>>
Histories == {<< >>, StoredTurn}

\* Logs for pruning: the sample logs, alone and after a stored turn whose
\* assistant message has string content.
PruneCalls ==
    {[op |-> "prune_thinking_blocks", n |-> 0, log |-> h \o l] :
        h \in Histories, l \in {s \in Logs : Len(s) <= 6}}

PipelineCalls == {[op |-> "api_messages", n |-> 0, log |-> l] : l \in Logs}

PureRet(op, err, value) == [op |-> op, err |-> err, value |-> value]

PureDispatch ==
    /\ call.op = "handle_tool_call"
    /\ ret = NoRet
    /\ LET r == handle_tool_call(call.name, call.input, call.behaviour)
       IN  ret' = PureRet(call.op, IF r.raised THEN r.exc ELSE "none", r.payload)
    /\ UNCHANGED <<runnerVars, agentVars, call, reads, attached, limiterVars>>

PureCompress ==
    /\ call.op = "compress_tool_result"
    /\ ret = NoRet
    /\ ret' = PureRet(call.op, "none", compress_tool_result(call.arg))
    /\ UNCHANGED <<runnerVars, agentVars, call, reads, attached, limiterVars>>

PureSummarize ==
    /\ call.op = "maybe_summarize_history"
    /\ ret = NoRet
    /\ ret' = PureRet(call.op, "none", maybe_summarize_history(call.log))
    /\ UNCHANGED <<runnerVars, agentVars, call, reads, attached, limiterVars>>

PureSelect ==
    /\ call.op = "select_model"
    /\ ret = NoRet
    /\ ret' = PureRet(call.op, "none",
                       select_model(call.msg, call.iteration, call.has_tool_use))
    /\ UNCHANGED <<runnerVars, agentVars, call, reads, attached, limiterVars>>

PureExec ==
    /\ call.op = "exec_tool"
    /\ ret = NoRet
    /\ call.outcome \in Outcomes(call.name)
    /\ ret' = PureRet(call.op, "none", ExecEvents(call.name, call.outcome))
    /\ UNCHANGED <<runnerVars, agentVars, call, reads, attached, limiterVars>>

PurePrune ==
    /\ call.op = "prune_thinking_blocks"
    /\ ret = NoRet
    /\ ret' = PureRet(call.op, "none", prune_thinking_blocks(call.log))
    /\ UNCHANGED <<runnerVars, agentVars, call, reads, attached, limiterVars>>

PurePipeline ==
    /\ call.op = "api_messages"
    /\ ret = NoRet
    /\ ret' = PureRet(call.op, "none", api_messages(call.log))
    /\ UNCHANGED <<runnerVars, agentVars, call, reads, attached, limiterVars>>

InitPure ==
    /\ InitLimiter
    /\ InitRunner
    /\ InitAgentIdle
    /\ call \in DispatchCalls \cup CompressCalls \cup SummarizeCalls \cup PipelineCalls
                \cup SelectCalls \cup ExecCalls \cup PruneCalls
    /\ ret = NoRet
    /\ reads = << >>
    /\ attached = << >>

NextPure == PureDispatch \/ PureCompress \/ PureSummarize \/ PurePipeline \/ PureSelect
            \/ PureExec \/ PurePrune

SpecPure == InitPure /\ [][NextPure]_vars

InitApi == InitRunner /\ InitAgentIdle /\ InitCalls /\ InitLimiter

InitChecks == InitRunner /\ InitAgentIdle /\ InitCalls /\ InitLimiter

NextChecks == Tick \/ \E key \in Keys : Check(key)

SpecLimiter == InitChecks /\ [][NextChecks]_vars

NextApi ==
    \/ \E j \in ApiJobIds : ApiCreate(j)
    \/ \E j \in ApiJobIds, status \in ApiStatuses, progress \in ApiProgress,
          message \in ApiMessages : ApiUpdate(j, status, progress, message)
    \/ \E j \in ApiJobIds, ids \in ApiIds : ApiSetResults(j, ids)
    \/ \E j \in ApiJobIds : ApiGetStatus(j)
    \/ \E j \in ApiJobIds : ApiGetResults(j)

SpecApi == InitApi /\ [][NextApi]_vars

InitAgent ==
    /\ InitLimiter
    /\ InitRunner
    /\ InitCalls
    /\ messages \in Histories
    /\ user_message = ExplainBinding
    /\ events = << >>
    /\ sse = << >>
    /\ apc = "idle"
    /\ iteration = 0
    /\ tool_use_blocks = << >>
    /\ tool_results = << >>
    /\ assistant_text_blocks = << >>
    /\ db_messages = << >>
    /\ is_new_conversation = TRUE
    /\ api_calls = << >>
    /\ nextId = 0
    /\ varied = 0
    /\ executed = << >>
    /\ exitPath = ""

NextAgent ==
    \/ StartTurn
    \/ \E shape \in Shapes, stop \in StopReasons : ProviderCall(shape, stop)
    \/ ProviderError
    \/ \E outcome \in {PayloadOk, PayloadError, PayloadViz, PayloadVizLong} : ExecTool(outcome)
    \/ IterationLimit
    \/ Finish
    \/ TitleGenerated
    \/ NoTitle

SpecAgent == InitAgent /\ [][NextAgent]_vars

\* Turns of at most MaxRounds iterations that run tool calls, for every user
\* message, every answer of the provider and every result of a tool.  Such a
\* turn ends before the iteration cap.
InitRounds ==
    /\ InitLimiter
    /\ InitRunner
    /\ InitCalls
    /\ messages \in Histories
    /\ user_message \in UserMessages
    /\ events = << >>
    /\ sse = << >>
    /\ apc = "idle"
    /\ iteration = 0
    /\ tool_use_blocks = << >>
    /\ tool_results = << >>
    /\ assistant_text_blocks = << >>
    /\ db_messages = << >>
    /\ is_new_conversation = TRUE
    /\ api_calls = << >>
    /\ nextId = 0
    /\ varied = 0
    /\ executed = << >>
    /\ exitPath = ""

NextRounds ==
    \/ StartTurn
    \/ \E shape \in Shapes, stop \in StopReasons : RoundCall(shape, stop)
    \/ ProviderError
    \/ \E outcome \in {PayloadOk, PayloadError, PayloadViz, PayloadVizLong} :
          RoundExec(outcome)
    \/ Finish
    \/ TitleGenerated
    \/ NoTitle

SpecRounds == InitRounds /\ [][NextRounds]_vars

\* The turn is one generator driven to its end by the response stream: each
\* step is taken once it is enabled.
FairSpecAgent == SpecAgent /\ WF_vars(NextAgent)

(***************************************************************************)
(* Claims about the Job Runner and the Job State Manager (under Spec)      *)
(***************************************************************************)
RunEnded == rpc \in EndPoints

\* C1: once a job's status is completed, failed or cancelled, no later step
\* changes it to a different value.
C1_TerminalFinal ==
    [][\A j \in DOMAIN jobs :
          jobs[j].status \in TerminalStates => jobs'[j].status = jobs[j].status]_vars

\* C2: when the Runner's task has ended, by any path after the job was marked
\* running, the job's status is not running.
C2_NotRunningAtEnd == RunEnded => jobs[rjob].status # "running"

\* C3: a run issues exactly one update into a terminal status.
C3_OneTerminalUpdate == RunEnded => termUpdates = 1

\* C9: when the process does not finish in time the job is failed with the
\* timeout message and stays so, the process was launched once and is never
\* relaunched, and when the Runner returns the process is no longer alive.
C9_TimeoutFails ==
    timedOut =>
        /\ jobs[rjob].status = "failed"
        /\ jobs[rjob].message = MsgTimeout
        /\ launches = 1
        /\ rpc = "done" => process # "alive"

C9_Witness ==
    /\ timedOut
    /\ rpc = "done"
    /\ process = "killed"
    /\ lines # << >>
    /\ jobs[rjob].status = "failed"

\* C10: the process prints Timestep 10/50 and Timestep 25/50, exits with code 0
\* and leaves n artifacts, and nothing else goes wrong: the record ends completed
\* with progress 1.0 and the n registered ids in registration order, and it was
\* observable as running with progress 0.0, 0.2 and 0.5 before, in that order.
ScenarioLines == <<TimestepLine(10, 50), TimestepLine(25, 50)>>

C10_Scenario ==
    /\ rpc = "done"
    /\ lines = ScenarioLines
    /\ return_code = Some(0)
    /\ faults = << >>
    /\ ~timedOut

C10_EndToEnd ==
    C10_Scenario =>
        /\ jobs[rjob].status = "completed"
        /\ jobs[rjob].progress = Some(1000)
        /\ jobs[rjob].output_pdb_ids = [i \in 1..artifacts |-> FileId(i)]
        /\ observed = << <<"running", Some(0)>>, <<"running", Some(200)>>,
                         <<"running", Some(500)>>, <<"completed", Some(1000)>> >>

C10_Witness ==
    /\ C10_Scenario
    /\ artifacts = 2
    /\ Len(jobs[rjob].output_pdb_ids) = 2
    /\ jobs[rjob].status = "completed"

(***************************************************************************)
(* Claims about the Conversation Orchestrator (under SpecAgent)            *)
(***************************************************************************)
LoopEnded == apc \in {"final", "done", "closed"}
TurnEnded == apc \in {"done", "closed"}

RECURSIVE Ids(_)
Ids(blocks) == IF blocks = << >> THEN << >> ELSE <<Head(blocks).id>> \o Ids(Tail(blocks))

RECURSIVE Names(_)
Names(blocks) == IF blocks = << >> THEN << >> ELSE <<Head(blocks).name>> \o Names(Tail(blocks))

RECURSIVE Count(_, _)
Count(seq, x) ==
    IF seq = << >> THEN 0 ELSE (IF Head(seq) = x THEN 1 ELSE 0) + Count(Tail(seq), x)

RECURSIVE EventNames(_)
EventNames(es) == IF es = << >> THEN << >> ELSE <<Head(es).event>> \o EventNames(Tail(es))

RECURSIVE FrameNames(_)
FrameNames(fs) == IF fs = << >> THEN << >> ELSE <<Head(fs)[2]>> \o FrameNames(Tail(fs))

RECURSIVE WithoutText(_)
WithoutText(es) ==
    IF es = << >> THEN << >>
    ELSE (IF Head(es).event = "text" THEN << >> ELSE <<Head(es)>>) \o WithoutText(Tail(es))

HasToolCalls(m) ==
    m.role = "assistant" /\ ~m.str /\ SelectType(m.blocks, "tool_use") # << >>

IsResultBundle(m) ==
    /\ m.role = "user"
    /\ ~m.str
    /\ m.blocks # << >>
    /\ \A k \in 1..Len(m.blocks) : m.blocks[k].type = "tool_result"

\* m is the bundle that answers the tool calls of a: one result per call, same order.
Answers(m, a) == IsResultBundle(m) /\ Ids(m.blocks) = Ids(SelectType(a.blocks, "tool_use"))

Paired(msgs) ==
    \A i \in 1..Len(msgs) :
        HasToolCalls(msgs[i]) =>
            /\ i < Len(msgs)
            /\ Answers(msgs[i + 1], msgs[i])
            /\ i + 2 <= Len(msgs) => ~IsResultBundle(msgs[i + 2])

\* C4: when the loop has ended, by whatever stop signal, every assistant message
\* with tool calls is followed by exactly one user message whose results
\* reference exactly those calls, in the same order.
C4_ToolResultsPaired == LoopEnded => Paired(messages)

LimitReported ==
    /\ exitPath = "limit"
    /\ messages[Len(messages)] = StrMessage("assistant", LimitMsg)
    /\ Len(events) >= 2
    /\ events[Len(events) - 1] = TextEvent(LimitMsg)
    /\ events[Len(events)] = DoneEvent

\* C5: a turn makes at most MAX_AGENT_ITERATIONS provider calls; when all of them
\* ended with tool calls the limit text is the last message and the last text
\* event, followed by done; and every turn reaches its done event.
C5_IterationCap ==
    /\ [](Len(api_calls) <= MAX_AGENT_ITERATIONS)
    /\ []((TurnEnded /\ iteration = MAX_AGENT_ITERATIONS) => LimitReported)
    /\ <>(apc = "done")

C5_Witness ==
    /\ apc = "done"
    /\ Len(api_calls) = MAX_AGENT_ITERATIONS
    /\ iteration = MAX_AGENT_ITERATIONS
    /\ events[Len(events)] = DoneEvent

ErrorReported ==
    LET error_text == Text("api error", Len(api_calls))
    IN  /\ LoopEnded
        /\ messages[Len(messages)] = StrMessage("assistant", error_text)
        /\ Count(events, TextEvent(error_text)) = 1
        /\ tool_use_blocks = << >>

\* C6: when a provider call fails, the error text is emitted once and is the
\* last message of the log, as the assistant's, and from then on no provider
\* call is made, no tool is executed and nothing is appended to the log.
C6_ProviderErrorEndsTurn ==
    /\ [](exitPath = "api_error" => ErrorReported)
    /\ [][exitPath = "api_error" =>
            /\ api_calls' = api_calls
            /\ executed' = executed
            /\ messages' = messages]_vars

C6_Witness ==
    /\ exitPath = "api_error"
    /\ iteration > 0
    /\ apc = "done"
    /\ executed # << >>

\* C7: the stream the caller receives holds exactly one done event, and it is
\* the last event of the stream.
C7_DoneIsLast ==
    apc = "closed" =>
        /\ Count(FrameNames(sse), "done") = 1
        /\ FrameNames(sse)[Len(sse)] = "done"

\* The same within run_agent_streaming's own events (holds).
DoneIsLastOfAgentEvents ==
    TurnEnded =>
        /\ Count(EventNames(events), "done") = 1
        /\ events[Len(events)] = DoneEvent

RECURSIVE ToolCallEvents(_)
ToolCallEvents(names) ==
    IF names = << >> THEN << >>
    ELSE <<ToolCallEvent(Head(names))>> \o ToolCallEvents(Tail(names))

\* es is, for each name in order, a tool_result event of that name optionally
\* followed by a visualization event, and then done.
RECURSIVE ResultsThenDone(_, _)
ResultsThenDone(es, names) ==
    IF names = << >> THEN es = <<DoneEvent>>
    ELSE /\ es # << >>
         /\ Head(es).event = "tool_result"
         /\ Head(es).name = Head(names)
         /\ IF Len(es) >= 2 /\ es[2].event = "visualization"
            THEN ResultsThenDone(Tail(Tail(es)), Tail(names))
            ELSE ResultsThenDone(Tail(es), Tail(names))

C8_Scenario ==
    /\ TurnEnded
    /\ Len(api_calls) = 2
    /\ iteration = 1
    /\ exitPath = "end_turn"

\* C8: the provider answers with tool calls, then with end_turn: the turn
\* appended user, assistant, one result bundle, assistant; leaving text events
\* aside the events are the tool_call events, then per call in call order its
\* tool_result optionally followed by a visualization, then done; the tools ran
\* in call order.
C8_ToolThenEndTurn ==
    C8_Scenario =>
        LET n == Len(messages)
            calls == SelectType(messages[n - 2].blocks, "tool_use")
            es == WithoutText(events)
            k == Len(calls)
        IN  /\ n = (IF is_new_conversation THEN 0 ELSE Len(StoredTurn)) + 4
            /\ messages[n - 3] = StrMessage("user", Text("user", 0))
            /\ HasToolCalls(messages[n - 2])
            /\ Answers(messages[n - 1], messages[n - 2])
            /\ messages[n].role = "assistant"
            /\ Len(es) > k
            /\ SubSeq(es, 1, k) = ToolCallEvents(Names(calls))
            /\ ResultsThenDone(SubSeq(es, k + 1, Len(es)), Names(calls))
            /\ executed = Ids(calls)

C8_Witness ==
    /\ C8_Scenario
    /\ Len(executed) = 2
    /\ Count(EventNames(events), "visualization") = 1
    /\ Count(EventNames(events), "text") = 2

(***************************************************************************)
(* Progress of a job within one run (under Spec)                           *)
(***************************************************************************)
\* C11: within a run the progress stored in a job's record never decreases
\* from one state to the next, whatever lines the process prints.
C11_ProgressMonotonic ==
    [][\A j \in DOMAIN jobs :
          (jobs[j].progress # None /\ jobs'[j].progress # None)
              => jobs'[j].progress[1] >= jobs[j].progress[1]]_vars

(***************************************************************************)
(* Claims about reads of the registry while the Runner works (under Spec)  *)
(***************************************************************************)
\* The fields of a status snapshot, all taken from one record.
StatusOf(rec) ==
    [err |-> "none", job_id |-> rec.job_id, status |-> rec.status,
     progress |-> rec.progress, message |-> rec.message,
     started_at |-> rec.started_at, completed_at |-> rec.completed_at]

\* What the holder of a returned value sees now.  get_status returns a new
\* dict of immutable values; get_results returns a new dict whose
\* output_pdb_ids is the list object the record holds, so the holder sees
\* whatever that list holds now.
View(r) ==
    IF r.op = "get_results" /\ r.value.err = "none"
    THEN [r.value EXCEPT !.output_pdb_ids = jobs[r.rec.job_id].output_pdb_ids]
    ELSE r.value

\* C16: a read that interleaves with the Runner's updates returns the fields of
\* one record state, the one between two whole updates at which the read was
\* made, and what the reader holds does not change when the record changes later.
C16_ReadsAreSnapshots ==
    \A i \in 1..Len(reads) :
        LET r == reads[i]
        IN  /\ View(r) = r.value
            /\ r.op = "get_status" => r.value = StatusOf(r.rec)
            /\ r.op = "get_results" =>
                   IF r.rec.status = "completed"
                   THEN /\ r.value.err = "none"
                        /\ r.value.output_pdb_ids = r.rec.output_pdb_ids
                        /\ r.value.num_designs = Len(r.rec.output_pdb_ids)
                   ELSE r.value.err = "InvalidState"

\* A status read while the job was running at 0.5, held while the job went on
\* to fail after it had completed.
C16_Witness ==
    /\ reads # << >>
    /\ reads[1].op = "get_status"
    /\ reads[1].value.status = "running"
    /\ reads[1].value.progress = Some(500)
    /\ jobs[rjob].status = "failed"
    /\ jobs[rjob].output_pdb_ids # << >>

\* C17: the submit tool returns before the Runner's task has run: the payload
\* says queued, the job is in the registry as pending, no process has been
\* started; the Runner goes on by itself and a status query made later returns
\* the status and progress the Runner has written by then.
C17_SubmitDoesNotWait ==
    /\ [][(rpc = "none" /\ rpc' # "none") =>
            /\ ret'.op = "run_rfdiffusion"
            /\ ret'.status = "queued"
            /\ ret'.job_id \in DOMAIN jobs'
            /\ jobs'[ret'.job_id].status = "pending"
            /\ rpc' = "start"
            /\ process' = "none"]_vars
    /\ [][\A i \in 1..Len(reads') :
            (i > Len(reads) /\ reads'[i].op = "get_status") =>
                /\ reads'[i].value.err = "none"
                /\ reads'[i].value.status = jobs[rjob].status
                /\ reads'[i].value.progress = jobs[rjob].progress]_vars

\* A status query after the submit tool returned finds the job completed.
C17_Witness ==
    /\ ret.op = "run_rfdiffusion"
    /\ reads # << >>
    /\ reads[1].op = "get_status"
    /\ reads[1].value.status = "completed"
    /\ reads[1].value.progress = Some(1000)

(***************************************************************************)
(* Claims about the JobManager under any caller (under SpecApi)            *)
(***************************************************************************)
\* The step is a call of op.
Called(op) == call'.n # call.n /\ call'.op = op

\* C13: update_status on an id the registry does not hold raises NotFound
\* (HTTP 404), and on a status outside the six enum values raises ValueError;
\* in both cases the registry is left exactly as it was.
C13_RejectedUpdateChangesNothing ==
    [][Called("update_status") =>
          /\ call'.job_id \notin DOMAIN jobs =>
                 (ret'.err = "NotFound" /\ jobs' = jobs)
          /\ (call'.job_id \in DOMAIN jobs /\ call'.status \notin _VALID_STATES) =>
                 (ret'.err = "ValueError" /\ jobs' = jobs)
          /\ (call'.job_id \in DOMAIN jobs /\ call'.status \in _VALID_STATES) =>
                 ret'.err = "none"]_vars

\* An update with an unknown status on a job that is running was rejected.
C13_Witness ==
    /\ call.op = "update_status"
    /\ ret.err = "ValueError"
    /\ call.status = "done"
    /\ call.job_id \in DOMAIN jobs
    /\ jobs[call.job_id].status = "running"
    /\ Cardinality(DOMAIN jobs) = 1

\* C14: get_results raises NotFound for an unknown id and InvalidState (HTTP
\* 400) whenever the status is not completed; for a completed job it returns
\* the ids last attached by set_results, in the order they were given.
C14_ResultsOnlyWhenCompleted ==
    call.op = "get_results" =>
        IF call.job_id \notin DOMAIN jobs THEN ret.err = "NotFound"
        ELSE IF jobs[call.job_id].status # "completed" THEN ret.err = "InvalidState"
        ELSE /\ ret.err = "none"
             /\ ret.value.output_pdb_ids = attached[call.job_id]
             /\ ret.value.num_designs = Len(attached[call.job_id])

C14_Witness ==
    /\ call.op = "get_results"
    /\ ret.err = "none"
    /\ ret.value.output_pdb_ids = <<FileId(2), FileId(1)>>

\* C15: a record enters the registry in status pending with completed_at
\* null, and in every state a record's completed_at is set exactly when its
\* status is completed, failed or cancelled.
C15_CompletedAtIffTerminal ==
    /\ [][\A j \in JobIds :
              (j \notin DOMAIN jobs /\ j \in DOMAIN jobs') =>
                  /\ jobs'[j].status = "pending"
                  /\ jobs'[j].completed_at = None]_vars
    /\ [](\A j \in DOMAIN jobs :
              (jobs[j].completed_at # None) <=> (jobs[j].status \in TerminalStates))

\* A job whose status was written twice at the end of a run (completed, then
\* failed) carries a completed_at stamp.
C15_Witness ==
    \E j \in DOMAIN jobs :
        /\ termUpdates >= 2
        /\ jobs[j].status \in TerminalStates
        /\ jobs[j].completed_at # None

(***************************************************************************)
(* Claims about the dispatcher and the context manager (under SpecPure)    *)
(***************************************************************************)
Done(op) == call.op = op /\ ret.op = op

\* C12: the dispatcher never raises; for an unknown tool name, for an input
\* that lacks a required key and for any exception a handler raises it returns
\* a serialized object with an error key.
C12_DispatchNeverRaises ==
    Done("handle_tool_call") =>
        /\ ret.err = "none"
        /\ ret.value.json
        /\ ( \/ call.name \notin ToolNames
             \/ ~(RequiredKeys(call.name) \subseteq call.input)
             \/ call.behaviour.raised ) => ret.value.error

\* A known tool whose input lacks one of its two required keys.
C12_Witness ==
    /\ Done("handle_tool_call")
    /\ call.name = "run_rfdiffusion"
    /\ call.input = {"contigs"}
    /\ ~call.behaviour.raised
    /\ ret.value.error

\* C18: a log of at most 10 messages comes back from maybe_summarize_history
\* unchanged whatever its estimated size, and so does a log whose estimate
\* does not exceed the 80,000 token threshold.
C18_SummarizeNoOp ==
    ( /\ Done("maybe_summarize_history")
      /\ \/ Len(call.log) <= 10
         \/ TotalChars(call.log) \div 4 <= 80000 ) => ret.value = call.log

\* A log of exactly 10 messages, over the threshold, with texts longer than
\* the condensing cut in its middle.
C18_Witness ==
    /\ Done("maybe_summarize_history")
    /\ Len(call.log) = 10
    /\ TotalChars(call.log) \div 4 > 80000
    /\ call.log[5].text.kind = "long"
    /\ ret.value = call.log

\* C19: a tool result that decodes to an object with a top-level error key
\* comes back from compress_tool_result exactly as it was, also when it is
\* longer than 2000 characters or holds sequence_preview fields.
C19_ErrorPassesThrough ==
    (Done("compress_tool_result") /\ call.arg.json /\ call.arg.error)
        => ret.value = call.arg

C19_Witness ==
    /\ Done("compress_tool_result")
    /\ call.arg.json
    /\ call.arg.error
    /\ call.arg.len = 5000
    /\ call.arg.trim > 0
    /\ ret.value = call.arg

\* The length the string has once its sequence previews are cut.
LenAfterTrim(s) == IF s.json THEN s.len - s.trim ELSE s.len

\* C20 as stated: every string longer than 2000 characters with no error key
\* is compressed to at most 2000 characters ending with the truncation marker.
C20_LongResultTruncated ==
    (Done("compress_tool_result") /\ call.arg.len > 2000 /\ ~call.arg.error)
        => (ret.value.len <= 2000 /\ ret.value.marker)

\* C20, amended: every string longer than 2000 characters with no error key is
\* compressed to at most 2000 characters; the result ends with the truncation
\* marker exactly when the string is still longer than 2000 characters after
\* its sequence previews were cut, and is otherwise the re-serialised string
\* with the previews cut.
C20_LongResultWithinCap ==
    (Done("compress_tool_result") /\ call.arg.len > 2000 /\ ~call.arg.error) =>
            /\ ret.value.len <= 2000
            /\ ret.value.marker <=> (LenAfterTrim(call.arg) > 2000)
            /\ ~ret.value.marker =>
                   (ret.value.len = LenAfterTrim(call.arg) /\ ret.value.json)

\* A 2030-character object whose previews lose 40 characters: no marker.
C20_Witness ==
    /\ Done("compress_tool_result")
    /\ call.arg.len = 2030
    /\ call.arg.trim = 40
    /\ ~call.arg.error
    /\ ~ret.value.marker
    /\ ret.value.len = 1990

\* C21: the context pipeline is idempotent on its own output: pruning then
\* summarising the log it returned gives that log again, and compressing a
\* compressed tool result gives that result again.
C21_PipelineIdempotent ==
    /\ Done("api_messages") => api_messages(ret.value) = ret.value
    /\ Done("compress_tool_result") => compress_tool_result(ret.value) = ret.value

\* A log that was condensed and is still over the threshold (a long text among
\* its last messages), so that the second pass condenses its middle again.
C21_Witness ==
    /\ Done("api_messages")
    /\ Len(ret.value) > 10
    /\ estimate_tokens(ret.value) > TOKEN_THRESHOLD
    /\ \E i \in 3..(Len(ret.value) - 8) : ret.value[i] # call.log[i]

(***************************************************************************)
(* Claims about the model router                                           *)
(***************************************************************************)
\* C22: on an iteration after the first with prior tool use, select_model
\* returns the standard model for every message, also for one that would
\* classify as fast or as deep reasoning.
C22_ToolTurnsAreStandard ==
    (Done("select_model") /\ call.iteration > 0 /\ call.has_tool_use)
        => ret.value = "claude-sonnet-4-6"

\* A greeting with a keyword in it, on the last iteration, with prior tool use.
C22_Witness ==
    /\ Done("select_model")
    /\ call.iteration = MAX_AGENT_ITERATIONS - 1
    /\ call.has_tool_use
    /\ call.msg.simple
    /\ call.msg.keyword
    /\ ret.value = SONNET

\* C23: on iteration 0, or without prior tool use, the message is classified
\* in this order: greeting pattern -> fast; at most 5 words and no keyword ->
\* fast; keyword -> deep reasoning; otherwise standard.
C23_ClassificationOrder ==
    (Done("select_model") /\ (call.iteration = 0 \/ ~call.has_tool_use)) =>
        ret.value =
            IF call.msg.simple THEN "claude-haiku-4-5-20251001"
            ELSE IF call.msg.words <= 5 /\ ~call.msg.keyword
                 THEN "claude-haiku-4-5-20251001"
            ELSE IF call.msg.keyword THEN "claude-opus-4-6"
            ELSE "claude-sonnet-4-6"

\* A greeting that holds a keyword is fast, on a later iteration without
\* prior tool use.
C23_Witness ==
    /\ Done("select_model")
    /\ call.iteration = 1
    /\ ~call.has_tool_use
    /\ call.msg.simple
    /\ call.msg.keyword
    /\ call.msg.words = 9
    /\ ret.value = HAIKU

\* C24: get_thinking_config gives a budget for the deep-reasoning model and
\* for no other, and a provider call of the turn carries a thinking budget
\* exactly when it was routed to the deep-reasoning model.
C24_ThinkingOnlyForOpus ==
    /\ \A m \in {HAIKU, SONNET, OPUS} :
           get_thinking_config(m) =
               IF m = "claude-opus-4-6" THEN Some(THINKING_BUDGET_TOKENS) ELSE None
    /\ \A i \in 1..Len(api_calls) :
           (api_calls[i].thinking # None) <=> (api_calls[i].model = "claude-opus-4-6")

\* A turn whose first call went to the deep-reasoning model with a budget and
\* whose second call, after a tool call, went to the standard model without.
C24_Witness ==
    /\ Len(api_calls) >= 2
    /\ api_calls[1].model = OPUS
    /\ api_calls[1].thinking = Some(THINKING_BUDGET_TOKENS)
    /\ api_calls[2].model = SONNET
    /\ api_calls[2].thinking = None

(***************************************************************************)
(* Claims about the events of an executed tool call (under SpecPure)       *)
(***************************************************************************)
\* C25: every executed tool call whose result payload holds pdb_contents,
\* whatever its size, has its tool_result event followed at once by a
\* visualization event that carries the field.
C25_VisualizationAfterResult ==
    (Done("exec_tool") /\ call.outcome.json /\ call.outcome.pdb_contents) =>
        /\ Len(ret.value) = 2
        /\ ret.value[1].event = "tool_result"
        /\ ret.value[2].event = "visualization"
        /\ HasVisualization(ret.value[2].content)

(***************************************************************************)
(* Claims about the Runner's failure paths (under Spec)                    *)
(***************************************************************************)
\* C26: every exception raised during a run is caught by the Runner and turned
\* into status failed with a diagnostic message: the task never ends with an
\* exception no handler caught, and a task that returned after a fault left
\* the job failed with the message of that fault.
C26_ExceptionsBecomeFailed ==
    /\ rpc # "raised"
    /\ (rpc = "done" /\ faults # << >>) =>
           /\ jobs[rjob].status = "failed"
           /\ jobs[rjob].message.kind = "Unexpected error"

\* C27: when the Runner's task has ended, by return or by exception, after the
\* external process was launched, that process is no longer running.
C27_ProcessStoppedAtEnd ==
    (rpc \in {"done", "raised"} /\ launches > 0) => process \in {"exited", "killed"}

\* C29: in every state another task can observe, a record's output id list is
\* non-empty only if its status is completed, and a completed record holds the
\* registered list and progress 1.0.
C29_ResultsOnlyWithCompleted ==
    \A j \in DOMAIN jobs :
        /\ jobs[j].output_pdb_ids # << >> => jobs[j].status = "completed"
        /\ jobs[j].status = "completed" =>
               /\ jobs[j].output_pdb_ids =
                      [i \in 1..artifacts |-> FileId(nfiles - artifacts + i)]
               /\ jobs[j].progress = Some(1000)

(***************************************************************************)
(* Claims about the size of a condensed log (under SpecPure)               *)
(***************************************************************************)
\* The characters estimate_tokens counts for one message.
MessageChars(m) == TotalChars(<<m>>)

\* C28: condensing never lengthens content: each message of the log that
\* maybe_summarize_history returns counts at most as many characters as the
\* message it stands for, and the estimated token count of the returned log
\* is at most that of the input.
C28_CondensingNeverLengthens ==
    Done("maybe_summarize_history") =>
        /\ Len(ret.value) = Len(call.log)
        /\ \A i \in 1..Len(call.log) :
               MessageChars(ret.value[i]) <= MessageChars(call.log[i])
        /\ estimate_tokens(ret.value) <= estimate_tokens(call.log)

(***************************************************************************)
(* Claims about the stop reason (under SpecAgent)                          *)
(***************************************************************************)
\* The response just received ends the loop defensively: its stop reason is
\* neither end_turn nor tool_use, or it is tool_use and the assistant message
\* built from it holds no tool_use block.
Anomaly(c, m) ==
    \/ c.stop_reason \notin {"", "end_turn", "tool_use"}
    \/ c.stop_reason = "tool_use" /\ SelectType(m.blocks, "tool_use") = << >>

\* C30: when the stop reason is neither end_turn nor tool_use, or is tool_use
\* with no tool call collected, the loop ends at once: no tool is executed and
\* no further provider call is made in the turn.
C30_AnomalyEndsLoop ==
    /\ [][Len(api_calls') = Len(api_calls) + 1 =>
              (Anomaly(api_calls'[Len(api_calls')], messages'[Len(messages')]) =>
                   /\ apc' = "final"
                   /\ tool_use_blocks' = << >>
                   /\ executed' = executed)]_vars
    /\ [][LoopEnded =>
              (api_calls' = api_calls /\ executed' = executed)]_vars

\* A response cut by max_tokens that holds a tool call: the turn is over, one
\* provider call was made and no tool was executed.
C30_Witness ==
    /\ TurnEnded
    /\ Len(api_calls) = 1
    /\ api_calls[1].stop_reason = "max_tokens"
    /\ SelectType(messages[Len(messages)].blocks, "tool_use") # << >>
    /\ executed = << >>

(***************************************************************************)
(* Claims about the shape of a summarised log (under SpecPure)             *)
(***************************************************************************)
Triggered(log) == estimate_tokens(log) > TOKEN_THRESHOLD /\ Len(log) > 10

\* C31: when summarization triggers (estimate above the threshold and more
\* than 10 messages) the returned log has as many messages, with the same
\* roles in the same order; its first 2 and last 8 messages are the input's;
\* the messages between keep their kind of content and their number of
\* blocks, and their tool_use blocks are the input's.
C31_SummarizePartition ==
    (Done("maybe_summarize_history") /\ Triggered(call.log)) =>
        LET n == Len(call.log)
            out == ret.value
        IN  /\ Len(out) = n
            /\ \A i \in 1..n : out[i].role = call.log[i].role
            /\ \A i \in (1..2) \cup ((n - 7)..n) : out[i] = call.log[i]
            /\ \A i \in 3..(n - 8) :
                  /\ out[i].str = call.log[i].str
                  /\ Len(out[i].blocks) = Len(call.log[i].blocks)
                  /\ \A k \in 1..Len(out[i].blocks) :
                        /\ out[i].blocks[k].type = call.log[i].blocks[k].type
                        /\ call.log[i].blocks[k].type = "tool_use"
                              => out[i].blocks[k] = call.log[i].blocks[k]

\* A log of 14 messages with long texts in its first and its last message:
\* the sixth message, in the middle, has its text cut and its tool_use block
\* kept, and the third, a tool_result bundle, is condensed.
C31_Witness ==
    /\ Done("maybe_summarize_history")
    /\ Triggered(call.log)
    /\ Len(call.log) = 14
    /\ call.log[1].text.kind = "long"
    /\ call.log[14].blocks[1].text.kind = "long"
    /\ ret.value[1] = call.log[1]
    /\ ret.value[14] = call.log[14]
    /\ ret.value[6] # call.log[6]
    /\ ret.value[6].blocks[3].type = "tool_use"
    /\ ret.value[6].blocks[3] = call.log[6].blocks[3]
    /\ ret.value[3] # call.log[3]

(***************************************************************************)
(* Claims about turns with any answer and any tool result (under           *)
(* SpecRounds)                                                             *)
(***************************************************************************)
\* The result block a step that executed a tool call has just collected.
NewResult ==
    IF Tail(tool_use_blocks) = << >>
    THEN LET b == messages'[Len(messages')].blocks IN b[Len(b)]
    ELSE tool_results'[Len(tool_results')]

\* C32: a tool call whose result is an error payload does not abort the turn.
\* The step that executed it yields that call's tool_result event with the
\* error payload and leaves the remaining calls of the iteration to be
\* executed; after the last call the bundle that answers every call of the
\* assistant message, the error one in its position, is appended and the loop
\* is at its next provider call.  No step that executes a tool ends the loop.
C32_ToolErrorsStayLocal ==
    /\ [][(executed' # executed /\ NewResult.content.error) =>
              LET tool_block == Head(tool_use_blocks)
                  last == Tail(tool_use_blocks) = << >>
              IN  /\ NewResult.id = tool_block.id
                  /\ events' = Append(events,
                                      ToolResultEvent(tool_block.name, NewResult.content))
                  /\ tool_use_blocks' = Tail(tool_use_blocks)
                  /\ exitPath' = ""
                  /\ IF last
                     THEN /\ apc' = "call"
                          /\ iteration' = iteration + 1
                          /\ iteration' < MAX_AGENT_ITERATIONS
                          /\ Len(messages') = Len(messages) + 1
                          /\ Answers(messages'[Len(messages')], messages[Len(messages)])
                     ELSE /\ apc' = "tools"
                          /\ messages' = messages]_vars
    /\ [][(~LoopEnded /\ LoopEnded') => executed' = executed]_vars

\* An answer with two tool calls whose first result is an error: the second
\* call was executed, the bundle holds the error result first, both results
\* were reported and a second provider call was made.
C32_Witness ==
    /\ Len(api_calls) = 2
    /\ Len(executed) = 2
    /\ LET bundle == messages[Len(messages) - 1]
       IN  /\ IsResultBundle(bundle)
           /\ Len(bundle.blocks) = 2
           /\ bundle.blocks[1].content = PayloadError
           /\ ~bundle.blocks[2].content.error
    /\ Count(EventNames(events), "tool_result") = 2
    /\ \E i \in 1..Len(events) :
          events[i] = ToolResultEvent("check_job_status", PayloadError)

\* C33: in a turn, whatever the user's message, every provider call after
\* the first goes to the standard model with no thinking budget; whenever the
\* loop is about to call the provider at an iteration > 0 the log ends with an
\* assistant message with tool calls followed by its result bundle, so the
\* prior-tool-use flag is true.
C33_LaterCallsAreStandard ==
    /\ \A k \in 2..Len(api_calls) :
           /\ api_calls[k].model = "claude-sonnet-4-6"
           /\ api_calls[k].thinking = None
    /\ (apc = "call" /\ iteration > 0) =>
           /\ HasToolUse(messages, iteration)
           /\ HasToolCalls(messages[Len(messages) - 1])
           /\ Answers(messages[Len(messages)], messages[Len(messages) - 1])

\* A greeting, routed to the fast model on the first call, with two more
\* provider calls in the turn.
C33_Witness ==
    /\ user_message = Hello
    /\ Len(api_calls) = 3
    /\ api_calls[1].model = HAIKU
    /\ api_calls[2].model = SONNET
    /\ api_calls[3].model = SONNET
    /\ api_calls[3].thinking = None

(***************************************************************************)
(* Range of the stored progress (under Spec)                               *)
(***************************************************************************)
\* C34: a progress that is not None lies between 0 and 1 (0 and 1000
\* thousandths) in every record, whatever Timestep lines the process prints.
C34_ProgressInUnitRange ==
    \A j \in DOMAIN jobs :
        jobs[j].progress # None =>
            (jobs[j].progress[1] >= 0 /\ jobs[j].progress[1] <= 1000)

(***************************************************************************)
(* Roles of the messages a turn appends (under SpecAgent)                  *)
(***************************************************************************)
\* The messages of the log from the turn's user message on.
Appended ==
    LET s == CHOOSE i \in 1..Len(messages) : messages[i] = StrMessage("user", Text("user", 0))
    IN  SubSeq(messages, s, Len(messages))

\* C35: at every point of a turn, and so on every exit path, the messages the
\* turn has appended to the log alternate roles: the user's message first,
\* then assistant, user, assistant, ... with no two in a row of one role.
C35_RolesAlternate ==
    apc # "idle" =>
        /\ \E i \in 1..Len(messages) : messages[i] = StrMessage("user", Text("user", 0))
        /\ \A i \in 1..Len(Appended) :
               Appended[i].role = IF i % 2 = 1 THEN "user" ELSE "assistant"

\* A turn that used all its iterations: the user's message, fifteen assistant
\* messages each followed by its result bundle, and the limit message.
C35_Witness ==
    /\ apc = "final"
    /\ exitPath = "limit"
    /\ Len(Appended) = 2 * MAX_AGENT_ITERATIONS + 2
    /\ IsResultBundle(Appended[Len(Appended) - 1])
    /\ Appended[Len(Appended)] = StrMessage("assistant", LimitMsg)

(***************************************************************************)
(* Claims about prune_thinking_blocks (under SpecPure)                     *)
(***************************************************************************)
\* C36: prune_thinking_blocks returns a log of the same length in which every
\* thinking block of an assistant message with list content is, in its place,
\* a thinking block with empty text and the same signature; every other
\* block, every user message and every assistant message with string content
\* is the input's.  The call leaves its argument as it was.
C36_PruneKeepsSignatures ==
    /\ [](Done("prune_thinking_blocks") =>
            LET in == call.log
                out == ret.value
            IN  /\ Len(out) = Len(in)
                /\ \A i \in 1..Len(in) :
                      IF in[i].role = "assistant" /\ ~in[i].str
                      THEN /\ out[i].role = "assistant"
                           /\ ~out[i].str
                           /\ Len(out[i].blocks) = Len(in[i].blocks)
                           /\ \A k \in 1..Len(in[i].blocks) :
                                 IF in[i].blocks[k].type = "thinking"
                                 THEN /\ out[i].blocks[k].type = "thinking"
                                      /\ out[i].blocks[k].text = NoText
                                      /\ out[i].blocks[k].signature
                                             = in[i].blocks[k].signature
                                 ELSE out[i].blocks[k] = in[i].blocks[k]
                      ELSE out[i] = in[i])
    /\ [][call.op = "prune_thinking_blocks" => call' = call]_vars

\* A stored turn with a string assistant message, then a log whose second
\* message has a thinking block with text and signature before a text block
\* and a tool_use block.
C36_Witness ==
    /\ Done("prune_thinking_blocks")
    /\ Len(call.log) = 8
    /\ call.log[2] = StrMessage("assistant", Text("stored", 2))
    /\ ret.value[2] = call.log[2]
    /\ call.log[4].blocks[1].type = "thinking"
    /\ call.log[4].blocks[1].text.kind = "mid"
    /\ call.log[4].blocks[1].signature = 2
    /\ ret.value[4].blocks[1] = Thinking(NoText, 2)
    /\ ret.value[4].blocks[2] = call.log[4].blocks[2]
    /\ ret.value[4].blocks[3].type = "tool_use"
    /\ ret.value[5] = call.log[5]

(***************************************************************************)
(* Claims about the rate limiter (under SpecLimiter)                       *)
(***************************************************************************)
\* The admitted requests of a key later than time s and not later than e.
RECURSIVE CountIn(_, _, _)
CountIn(times, s, e) ==
    IF times = << >> THEN 0
    ELSE (IF Head(times) > s /\ Head(times) <= e THEN 1 ELSE 0) + CountIn(Tail(times), s, e)

====
